---- MODULE Spec2Model ----
(***************************************************************************)
(* A model of the mabouya voxel server (src/server.py): the connection     *)
(* registry, the world's camera and player cubes, and the per-camera       *)
(* streaming loop, as asyncio tasks that interleave at their awaits.       *)
(*                                                                         *)
(* Every `await ws.send(..)` and the loop's `await asyncio.sleep(..)` is a *)
(* suspension point.  A send hands its message to the transport when it is *)
(* called (so messages reach one connection in call order) and returns,    *)
(* or raises ConnectionClosed, when the task is resumed.  One action is    *)
(* the code a task runs from one resumption to its next await.             *)
(***************************************************************************)
EXTENDS Integers, Sequences, FiniteSets, TLC

\* ------------------------------------------------------------------ bounds
MaxConns == 2
MaxCams == 2
MaxClock == 2
MaxCoord == 1
MaxFrames == 2
MaxStreamCams == 1
MaxStreamClock == 1
MaxRenders == 3
MaxYaw == 400
MaxThreads == 3

\* The number of preamble messages the repository's clients skip.
PreambleLen == 2

Conns == 1..MaxConns
Positions == {<<x, 2, 0>> : x \in 0..MaxCoord}
Deltas == {<<0, 0, 0>>, <<1, 0, 0>>}
DefaultSpawn == <<0, 2, 0>>
\* The yaw and pitch members of the rotate requests.
YawDeltas == {-200, 0, 200}
PitchDeltas == {-200, -60, 60, 200}

\* ------------------------------------------------------------- identifiers
\* An id string is modelled by a 4-tuple <<format, a, b, c>>.
NoId == <<"none", 0, 0, 0>>
BogusId == <<"bogus", 0, 0, 0>>
\* f"cam_{datetime.now().timestamp()}"
CamId(t) == <<"cam", t, 0, 0>>
\* player_id = f"player_{id(websocket)}", the key of world.players
PlayerKey(c) == <<"player", c, 0, 0>>
\* Player.id = f"player_{player_id}"
PlayerObjId(c) == <<"player_player", c, 0, 0>>
\* f"cube_{x}_{y}_{z}_{block_type}"
CubeId(p, block_type) ==
    <<IF block_type = "camera" THEN "cube_camera" ELSE "cube_player", p[1], p[2], p[3]>>

\* ---------------------------------------------------------------- messages
Msg(type, id, success, n) == [type |-> type, id |-> id, success |-> success, n |-> n]
NoMsg == Msg("none", NoId, FALSE, 0)
\* {"type": "error", "message": text}
ErrorMsg(text) == Msg("error", <<text, 0, 0, 0>>, FALSE, 0)

VARIABLES
    open,               \* open[c]: the transport of connection c is open
    task,               \* task[c]: the handle_client task of connection c
    clients,            \* MinecraftServer.clients
    player_positions,   \* MinecraftServer.player_positions
    camera_subscribers, \* MinecraftServer.camera_subscribers
    world_players,      \* World.players: key -> Player cube
    world_cameras,      \* World.cameras: key -> index of a CubeCamera in cams
    cams,               \* the CubeCamera objects ever constructed
    loops,              \* the camera_stream_loop tasks ever created
    clock,              \* the wall clock read by datetime.now()
    nsent,              \* nsent[c]: messages handed to c's transport, up to PreambleLen + 1
    wire,               \* the message the last step handed to a transport
    delivered,          \* delivered[c][i]: the frame counters of the last two camera_frame
                        \* messages of camera object i handed to c's transport, the
                        \* latest second (0: none yet)
    acked,              \* acked[c]: the camera ids for which `subscribed` was handed
                        \* to c's transport
    terrain,            \* World.blocks: the cells that hold a terrain block
    env,                \* what the host provides: importable modules, working constructors
    rcam,               \* the renderers of one CubeCamera
    rhist,              \* which renderer variants its render_view calls invoked
    frame,              \* the camera_frame message of its last tick
    rworld,             \* the World given to render_view: terrain and cube collections,
                        \* coordinates in halves of a block
    all_blocks,         \* what its last get_all_blocks call returned
    shot,               \* the first frame one of its renderer variants returned
    ray,                \* one pixel's ray of _render_view_raytracing and its colour
    windows             \* CubeCamera.windows: the camera's PygletCameraWindow, its
                        \* window thread and the caller of activate/deactivate

serverVars == <<open, task, clients, player_positions, camera_subscribers, world_players,
                world_cameras, cams, loops, clock, nsent, wire, delivered, acked, terrain>>
renderVars == <<env, rcam, rhist, frame, rworld, all_blocks, shot, ray, windows>>
vars == <<serverVars, renderVars>>

worldVars == <<world_players, world_cameras, cams>>

\* ------------------------------------------------------------ dict helpers
Put(f, k, v) == [x \in DOMAIN f \cup {k} |-> IF x = k THEN v ELSE f[x]]
Del(f, k) == [x \in DOMAIN f \ {k} |-> f[x]]
EmptyDict == [x \in {} |-> 0]

\* Python's max and min of two numbers
py_max(a, b) == IF b > a THEN b ELSE a
py_min(a, b) == IF b < a THEN b ELSE a

\* ------------------------------------------------------------------- cubes
\* Cube.__init__: position is stored as a tuple.
TuplePos(p) == [kind |-> "tuple", v |-> p]

\* Python's item assignment: a tuple raises TypeError, a list is updated.
ItemAssignable(pos) == pos.kind = "list"

\* Cube.move_to: the position and the id are rewritten (is_moveable is True for
\* cameras and players).
move_to(cube, new_position, block_type) ==
    [cube EXCEPT !.position = TuplePos(new_position),
                 !.id = CubeId(new_position, block_type)]

\* CubeCamera.__init__ (identity and pose; the renderers are modelled apart)
NewCamera(position, resolution, t) ==
    [id |-> CamId(t), position |-> TuplePos(position), rotation |-> <<0, 0>>,
     resolution |-> resolution]

\* Player.__init__
NewPlayer(c, position) == [id |-> PlayerObjId(c), position |-> TuplePos(position)]

\* ------------------------------------------------------------------- sends
\* ws.send(m) called on connection c: the message is handed to the transport if
\* the connection is open.  wire is the message the last step handed over.
NoWire == [to |-> 0, msg |-> NoMsg]

Transmit(c, m, isOpen) ==
    IF isOpen
    THEN /\ wire' = [to |-> c, msg |-> m]
         /\ nsent' = [nsent EXCEPT ![c] = IF @ <= PreambleLen THEN @ + 1 ELSE @]
    ELSE /\ wire' = NoWire
         /\ UNCHANGED nsent

SendTo(c, m) == Transmit(c, m, open[c])
NoSend == wire' = NoWire /\ UNCHANGED nsent

\* ------------------------------------------------------- connection tasks
IdleTask == [pc |-> "init", todo |-> {}, disc |-> {}, cur |-> 0,
             msg |-> NoMsg, cont |-> "none"]
RecvTask == [IdleTask EXCEPT !.pc = "recv"]
DoneTask == [IdleTask EXCEPT !.pc = "done"]
DeadTask == [IdleTask EXCEPT !.pc = "dead"]

\* broadcast_to_all, from the top of its for loop over list(self.clients): t is
\* the task's record (todo: the clients not sent to yet, disc: `disconnected`),
\* clientsNow the value of self.clients.  Either the next send is called, or
\* the loop is over: the disconnected clients are discarded and the caller
\* goes on (cont).
BcastNext(c, t, clientsNow) ==
    IF t.todo # {}
    THEN \E x \in t.todo :
            /\ task' = [task EXCEPT ![c] = [t EXCEPT !.pc = "bcast", !.todo = @ \ {x},
                                                     !.cur = x]]
            /\ SendTo(x, t.msg)
            /\ clients' = clientsNow
    ELSE /\ clients' = clientsNow \ t.disc
         /\ CASE t.cont = "recv" -> task' = [task EXCEPT ![c] = RecvTask] /\ NoSend
              [] t.cont = "done" -> task' = [task EXCEPT ![c] = DoneTask] /\ NoSend
              [] OTHER ->
                    \* handle_move_cube / handle_remove_cube: the direct reply
                    /\ task' = [task EXCEPT ![c] = RecvTask]
                    /\ SendTo(c, Msg(t.msg.type, t.msg.id, TRUE, 0))

StartBroadcast(c, m, cont, clientsNow) ==
    BcastNext(c, [pc |-> "bcast", todo |-> clientsNow, disc |-> {}, cur |-> 0,
                  msg |-> m, cont |-> cont], clientsNow)

\* handle_client up to its first await: register, add the player, call
\* send_world_state.
Connect(c) ==
    /\ task[c].pc = "init"
    /\ open' = [open EXCEPT ![c] = TRUE]
    /\ clients' = clients \cup {c}
    /\ world_players' = Put(world_players, PlayerKey(c), NewPlayer(c, DefaultSpawn))
    /\ player_positions' = Put(player_positions, c, DefaultSpawn)
    /\ Transmit(c, Msg("world_state", NoId, FALSE, 0), TRUE)
    /\ task' = [task EXCEPT ![c] = [IdleTask EXCEPT !.pc = "hs_world"]]
    /\ UNCHANGED <<camera_subscribers, world_cameras, cams, loops, clock>>
    /\ UNCHANGED <<delivered, acked, terrain, renderVars>>

\* send_world_state returns.  It is awaited outside the try block: if it raises,
\* handle_client ends without its cleanup.  Otherwise player_joined is broadcast.
HsWorldReturn(c) ==
    /\ task[c].pc = "hs_world"
    /\ IF ~open[c]
       THEN /\ task' = [task EXCEPT ![c] = DeadTask]
            /\ NoSend
            /\ UNCHANGED clients
       ELSE StartBroadcast(c, Msg("player_joined", PlayerKey(c), FALSE, 0), "recv", clients)
    /\ UNCHANGED <<open, player_positions, camera_subscribers, worldVars, loops, clock>>
    /\ UNCHANGED <<delivered, acked, terrain, renderVars>>

\* A send of broadcast_to_all returns (or raises: the client is remembered as
\* disconnected), and the loop goes on.
BcastReturn(c) ==
    /\ task[c].pc = "bcast"
    /\ LET t == task[c]
           t1 == IF open[t.cur] THEN t ELSE [t EXCEPT !.disc = @ \cup {t.cur}]
       IN BcastNext(c, t1, clients)
    /\ UNCHANGED <<open, player_positions, camera_subscribers, worldVars, loops, clock>>
    /\ UNCHANGED <<delivered, acked, terrain, renderVars>>

\* The peer closes the connection, or the keep-alive ping times out.
Close(c) ==
    /\ open[c]
    /\ open' = [open EXCEPT ![c] = FALSE]
    /\ NoSend
    /\ UNCHANGED <<task, clients, player_positions, camera_subscribers, worldVars,
                   loops, clock>>
    /\ UNCHANGED <<delivered, acked, terrain, renderVars>>

\* World.remove_player
remove_player(players, player_id) ==
    IF player_id \in DOMAIN players THEN Del(players, player_id) ELSE players

\* `async for message in websocket` raises ConnectionClosed: the finally block.
Cleanup(c) ==
    /\ task[c].pc = "recv"
    /\ ~open[c]
    /\ camera_subscribers' = [k \in DOMAIN camera_subscribers |->
                                camera_subscribers[k] \ {c}]
    /\ IF c \in DOMAIN player_positions
       THEN /\ world_players' = remove_player(world_players, PlayerKey(c))
            /\ player_positions' = Del(player_positions, c)
            /\ StartBroadcast(c, Msg("player_left", PlayerKey(c), FALSE, 0), "done",
                              clients \ {c})
       ELSE /\ clients' = clients \ {c}
            /\ task' = [task EXCEPT ![c] = DoneTask]
            /\ NoSend
            /\ UNCHANGED <<world_players, player_positions>>
    /\ UNCHANGED <<open, world_cameras, cams, loops, clock>>
    /\ UNCHANGED <<delivered, acked, terrain, renderVars>>

\* ------------------------------------------------------- request handlers
\* A message is read by `async for message in websocket` and routed by
\* handle_message.  The final reply of a handler is sent as the handler ends.
CanRecv(c) == task[c].pc = "recv" /\ open[c]

\* The streaming task as asyncio.create_task leaves it: not started yet.
NewLoop(i) == [cam |-> i, pc |-> "start", frame_count |-> 0, msg_id |-> NoId,
               todo |-> {}, cur |-> 0, exc |-> FALSE]

\* The "resolution" member of a create_camera request: absent, a list (v: its
\* elements, numeric: they are numbers), or a value of another type.
NoResolution == [kind |-> "missing", v |-> <<>>, numeric |-> TRUE]
ResolutionList(v) == [kind |-> "list", v |-> v, numeric |-> TRUE]

\* handle_create_camera, lines 878-885, with the requested values passed on as
\* they are.
validate_resolution_NoClamp(resolution) ==
    IF resolution.kind = "list" /\ Len(resolution.v) = 2
    THEN <<resolution.v[1], resolution.v[2]>>
    ELSE <<240, 180>>

\* handle_create_camera, lines 875-885: the resolution given to add_camera.
\* data.get's default is the tuple (240, 180), which is no list either.
validate_resolution(resolution) ==
    IF resolution.kind = "list" /\ Len(resolution.v) = 2
    THEN <<py_max(160, py_min(1920, resolution.v[1])),
           py_max(120, py_min(1080, resolution.v[2]))>>
    ELSE <<240, 180>>

\* min(1920, width) raises TypeError when an element is no number.
validate_resolution_raises(resolution) ==
    resolution.kind = "list" /\ Len(resolution.v) = 2 /\ ~resolution.numeric

\* World.add_camera
add_camera(position, resolution, t) ==
    Put(world_cameras, NewCamera(position, resolution, t).id, Len(cams) + 1)

\* handle_create_camera: t is the wall clock when CubeCamera.__init__ reads it.
CreateCamera(c, position, resolution, t) ==
    /\ CanRecv(c)
    /\ Len(cams) < MaxCams
    /\ t \in clock..MaxClock
    /\ IF validate_resolution_raises(resolution)
       THEN /\ SendTo(c, ErrorMsg("TypeError"))
            /\ UNCHANGED <<cams, world_cameras, camera_subscribers, loops, clock>>
       ELSE LET camera == NewCamera(position, validate_resolution(resolution), t)
            IN /\ cams' = Append(cams, camera)
               /\ world_cameras' = add_camera(position, validate_resolution(resolution), t)
               /\ camera_subscribers' = Put(camera_subscribers, camera.id, {})
               /\ loops' = Append(loops, NewLoop(Len(cams) + 1))
               /\ SendTo(c, Msg("camera_created", camera.id, FALSE, 0))
               /\ clock' = t
    /\ UNCHANGED <<open, task, clients, player_positions, world_players>>
    /\ UNCHANGED <<delivered, acked, terrain, renderVars>>

\* handle_subscribe_camera creating a streaming task at every subscription.
SubscribeCamera_AlwaysStarts(c, camera_id) ==
    /\ CanRecv(c)
    /\ IF camera_id \in DOMAIN world_cameras
       THEN /\ camera_subscribers' =
                  IF camera_id \notin DOMAIN camera_subscribers
                  THEN Put(camera_subscribers, camera_id, {c})
                  ELSE [camera_subscribers EXCEPT ![camera_id] = @ \cup {c}]
            /\ loops' = Append(loops, NewLoop(world_cameras[camera_id]))
            /\ SendTo(c, Msg("subscribed", camera_id, FALSE, 0))
            /\ acked' = [acked EXCEPT ![c] = @ \cup {camera_id}]
       ELSE /\ SendTo(c, ErrorMsg("Camera introuvable"))
            /\ UNCHANGED <<camera_subscribers, loops, acked>>
    /\ UNCHANGED <<open, task, clients, player_positions, worldVars, clock>>
    /\ UNCHANGED <<delivered, terrain, renderVars>>

\* handle_subscribe_camera
SubscribeCamera(c, camera_id) ==
    /\ CanRecv(c)
    /\ IF camera_id \in DOMAIN world_cameras
       THEN /\ IF camera_id \notin DOMAIN camera_subscribers
               THEN /\ camera_subscribers' = Put(camera_subscribers, camera_id, {c})
                    /\ loops' = Append(loops, NewLoop(world_cameras[camera_id]))
               ELSE /\ camera_subscribers' =
                          [camera_subscribers EXCEPT ![camera_id] = @ \cup {c}]
                    /\ UNCHANGED loops
            /\ SendTo(c, Msg("subscribed", camera_id, FALSE, 0))
            /\ acked' = [acked EXCEPT ![c] = @ \cup {camera_id}]
       ELSE /\ SendTo(c, ErrorMsg("Camera introuvable"))
            /\ UNCHANGED <<camera_subscribers, loops, acked>>
    /\ UNCHANGED <<open, task, clients, player_positions, worldVars, clock>>
    /\ UNCHANGED <<delivered, terrain, renderVars>>

\* CubeCamera.rotate with the pitch wrapped into [-90, 90) instead of clamped.
rotate_Wraps(camera, yaw_delta, pitch_delta) ==
    [camera EXCEPT !.rotation = <<camera.rotation[1] + yaw_delta,
                                  ((camera.rotation[2] + pitch_delta + 90) % 180) - 90>>]

\* CubeCamera.rotate
rotate(camera, yaw_delta, pitch_delta) ==
    [camera EXCEPT !.rotation = <<camera.rotation[1] + yaw_delta,
                                  py_max(-90, py_min(90, camera.rotation[2] + pitch_delta))>>]

\* The members of a control_camera request that the handler reads.
MoveRequest(delta) == [action |-> "move", yaw |-> 0, pitch |-> 0, delta |-> delta]
RotateRequest(yaw, pitch) ==
    [action |-> "rotate", yaw |-> yaw, pitch |-> pitch, delta |-> <<0, 0, 0>>]

\* camera.position[i] += delta[i], for i = 0, 1, 2
MoveByDelta(camera, delta) ==
    [camera EXCEPT !.position.v = <<@[1] + delta[1], @[2] + delta[2], @[3] + delta[3]>>]

\* handle_control_camera.  An exception of a handler is caught by handle_message,
\* which answers with an error message.
ControlCamera(c, camera_id, data) ==
    /\ CanRecv(c)
    /\ IF camera_id \notin DOMAIN world_cameras
       THEN /\ SendTo(c, ErrorMsg("Camera introuvable"))
            /\ UNCHANGED cams
       ELSE LET i == world_cameras[camera_id]
                camera == cams[i]
            IN IF data.action = "move" /\ ~ItemAssignable(camera.position)
               THEN \* TypeError: 'tuple' object does not support item assignment
                    /\ SendTo(c, ErrorMsg("TypeError"))
                    /\ UNCHANGED cams
               ELSE /\ cams' = [cams EXCEPT ![i] =
                                  CASE data.action = "rotate" ->
                                            rotate(camera, data.yaw, data.pitch)
                                    [] data.action = "move" ->
                                            MoveByDelta(camera, data.delta)
                                    [] OTHER -> camera]
                    /\ SendTo(c, Msg("camera_updated", cams'[i].id, FALSE, 0))
    /\ UNCHANGED <<open, task, clients, player_positions, camera_subscribers,
                   world_players, world_cameras, loops, clock>>
    /\ UNCHANGED <<delivered, acked, terrain, renderVars>>

\* World.move_cube: the collections are searched by key, cameras first.
move_cube_found(cube_id) == cube_id \in DOMAIN world_cameras \cup DOMAIN world_players

\* handle_move_cube
MoveCube(c, cube_id, new_position) ==
    /\ CanRecv(c)
    /\ IF cube_id = NoId
       THEN \* `if not cube_id or not new_position`
            /\ SendTo(c, ErrorMsg("ID du cube et position requis"))
            /\ UNCHANGED <<task, clients, worldVars>>
       ELSE IF move_cube_found(cube_id)
       THEN /\ IF cube_id \in DOMAIN world_cameras
               THEN /\ cams' = [cams EXCEPT ![world_cameras[cube_id]] =
                                   move_to(@, new_position, "camera")]
                    /\ UNCHANGED world_players
               ELSE /\ world_players' = [world_players EXCEPT ![cube_id] =
                                            move_to(@, new_position, "player")]
                    /\ UNCHANGED cams
            /\ UNCHANGED world_cameras
            /\ StartBroadcast(c, Msg("cube_moved", cube_id, FALSE, 0), "reply", clients)
       ELSE /\ SendTo(c, ErrorMsg("Impossible de deplacer le cube"))
            /\ UNCHANGED <<task, clients, worldVars>>
    /\ UNCHANGED <<open, player_positions, camera_subscribers, loops, clock>>
    /\ UNCHANGED <<delivered, acked, terrain, renderVars>>

\* handle_remove_cube announcing the removal whether or not a cube was removed.
RemoveCube_AlwaysAnnounces(c, cube_id) ==
    /\ CanRecv(c)
    /\ IF cube_id = NoId
       THEN /\ SendTo(c, ErrorMsg("ID du cube requis"))
            /\ UNCHANGED <<task, clients, worldVars>>
       ELSE /\ world_cameras' = IF cube_id \in DOMAIN world_cameras
                                THEN Del(world_cameras, cube_id) ELSE world_cameras
            /\ world_players' = IF cube_id \in DOMAIN world_players \ DOMAIN world_cameras
                                THEN Del(world_players, cube_id) ELSE world_players
            /\ UNCHANGED cams
            /\ StartBroadcast(c, Msg("cube_removed", cube_id, FALSE, 0), "reply", clients)
    /\ UNCHANGED <<open, player_positions, camera_subscribers, loops, clock>>
    /\ UNCHANGED <<delivered, acked, terrain, renderVars>>

\* handle_remove_cube, with World.remove_cube (terrain blocks are not moveable,
\* so its search of world.blocks removes nothing).
RemoveCube(c, cube_id) ==
    /\ CanRecv(c)
    /\ IF cube_id = NoId
       THEN /\ SendTo(c, ErrorMsg("ID du cube requis"))
            /\ UNCHANGED <<task, clients, worldVars>>
       ELSE IF cube_id \in DOMAIN world_cameras
       THEN /\ world_cameras' = Del(world_cameras, cube_id)
            /\ UNCHANGED <<world_players, cams>>
            /\ StartBroadcast(c, Msg("cube_removed", cube_id, FALSE, 0), "reply", clients)
       ELSE IF cube_id \in DOMAIN world_players
       THEN /\ world_players' = Del(world_players, cube_id)
            /\ UNCHANGED <<world_cameras, cams>>
            /\ StartBroadcast(c, Msg("cube_removed", cube_id, FALSE, 0), "reply", clients)
       ELSE /\ SendTo(c, ErrorMsg("Impossible de supprimer le cube"))
            /\ UNCHANGED <<task, clients, worldVars>>
    /\ UNCHANGED <<open, player_positions, camera_subscribers, loops, clock>>
    /\ UNCHANGED <<delivered, acked, terrain, renderVars>>

\* An inbound message: whether json.loads accepts its text, whether the value
\* is a JSON object, and the value of its "type" member.
KnownTypes == {"create_camera", "subscribe_camera", "control_camera", "move_cube",
               "remove_cube"}
BadMessages ==
    {[json |-> FALSE, object |-> FALSE, type |-> "none"],
     [json |-> TRUE, object |-> FALSE, type |-> "none"],
     [json |-> TRUE, object |-> TRUE, type |-> "none"],
     [json |-> TRUE, object |-> TRUE, type |-> "fly"]}

\* handle_message for a message that reaches no handler: json.loads raises
\* JSONDecodeError, data.get raises AttributeError on a value that is no dict
\* (both caught by `except Exception`), or no branch matches msg_type.
handle_message_error(m) ==
    IF ~m.json THEN ErrorMsg("JSONDecodeError")
    ELSE IF ~m.object THEN ErrorMsg("AttributeError")
    ELSE ErrorMsg("Type inconnu")

\* handle_message with the exception left to propagate: handle_client's
\* `async for` ends and the connection is closed.
BadMessage_Unhandled(c, m) ==
    /\ CanRecv(c)
    /\ m.type \notin KnownTypes
    /\ IF m.json /\ m.object
       THEN SendTo(c, handle_message_error(m)) /\ UNCHANGED open
       ELSE NoSend /\ open' = [open EXCEPT ![c] = FALSE]
    /\ UNCHANGED <<task, clients, player_positions, camera_subscribers, worldVars,
                   loops, clock>>
    /\ UNCHANGED <<delivered, acked, terrain, renderVars>>

\* handle_message
BadMessage(c, m) ==
    /\ CanRecv(c)
    /\ m.type \notin KnownTypes
    /\ SendTo(c, handle_message_error(m))
    /\ UNCHANGED <<open, task, clients, player_positions, camera_subscribers, worldVars,
                   loops, clock>>
    /\ UNCHANGED <<delivered, acked, terrain, renderVars>>

\* The positions of the place_block and destroy_block requests: a cell of the
\* ground and a cell above the stone towers of World.generate_world.
BlockPositions == {<<0, 0, 0>>, <<0, 5, 0>>}

\* World.generate_world: of these cells, those of the ground (y = 0) hold a
\* block.
generate_world == {position \in BlockPositions : position[2] = 0}

\* {"type": "block_placed" / "block_destroyed", "position": list(position)}
BlockMsg(type, position) == Msg(type, <<"cell", position[1], position[2], position[3]>>, FALSE, 0)

\* handle_place_block with the broadcast outside the `if`.
PlaceBlock_AlwaysBroadcasts(c, position) ==
    /\ CanRecv(c)
    /\ terrain' = terrain \cup {position}
    /\ StartBroadcast(c, BlockMsg("block_placed", position), "recv", clients)
    /\ UNCHANGED <<open, player_positions, camera_subscribers, worldVars, loops, clock>>
    /\ UNCHANGED <<delivered, acked, renderVars>>

\* handle_place_block
PlaceBlock(c, position) ==
    /\ CanRecv(c)
    /\ IF position \notin terrain
       THEN /\ terrain' = terrain \cup {position}
            /\ StartBroadcast(c, BlockMsg("block_placed", position), "recv", clients)
       ELSE /\ NoSend
            /\ UNCHANGED <<terrain, task, clients>>
    /\ UNCHANGED <<open, player_positions, camera_subscribers, worldVars, loops, clock>>
    /\ UNCHANGED <<delivered, acked, renderVars>>

\* handle_destroy_block
DestroyBlock(c, position) ==
    /\ CanRecv(c)
    /\ IF position \in terrain
       THEN /\ terrain' = terrain \ {position}
            /\ StartBroadcast(c, BlockMsg("block_destroyed", position), "recv", clients)
       ELSE /\ NoSend
            /\ UNCHANGED <<terrain, task, clients>>
    /\ UNCHANGED <<open, player_positions, camera_subscribers, worldVars, loops, clock>>
    /\ UNCHANGED <<delivered, acked, renderVars>>

\* The reply handle_get_player_positions sends: the positions of the
\* connections of player_positions, and their count (n).
player_positions_reply(positions) ==
    Msg("player_positions", NoId, FALSE, Cardinality(DOMAIN positions))

\* The call of line 852, handle_get_player_positions(websocket, data), against
\* the definition of line 1016, handle_get_player_positions(self, websocket).
get_player_positions_call == [passed |-> 2, declared |-> 1]

\* handle_message for a get_player_positions request: a call that passes
\* another number of arguments than the handler declares raises TypeError
\* before the handler's body runs; `except Exception` sends its text.
GetPlayerPositions(c) ==
    /\ CanRecv(c)
    /\ IF get_player_positions_call.passed = get_player_positions_call.declared
       THEN SendTo(c, player_positions_reply(player_positions))
       ELSE SendTo(c, ErrorMsg("TypeError"))
    /\ UNCHANGED <<open, task, clients, player_positions, camera_subscribers, worldVars,
                   loops, clock>>
    /\ UNCHANGED <<delivered, acked, terrain, renderVars>>

\* handle_player_position_update: World.update_player_position moves the
\* player's cube if the world has it, the registry entry is written, and
\* broadcast_to_others tells the other clients.
PlayerPositionUpdate(c, position) ==
    /\ CanRecv(c)
    /\ world_players' = IF PlayerKey(c) \in DOMAIN world_players
                        THEN [world_players EXCEPT ![PlayerKey(c)] =
                                 move_to(@, position, "player")]
                        ELSE world_players
    /\ player_positions' = Put(player_positions, c, position)
    /\ BcastNext(c, [pc |-> "bcast", todo |-> clients \ {c}, disc |-> {}, cur |-> 0,
                     msg |-> Msg("player_position_changed", PlayerKey(c), FALSE, 0),
                     cont |-> "recv"], clients)
    /\ UNCHANGED <<open, camera_subscribers, world_cameras, cams, loops, clock>>
    /\ UNCHANGED <<delivered, acked, terrain, renderVars>>

\* ------------------------------------------------------- streaming loops
\* The while loop with its test left out: `while True`.
WhileCheck_NoTest(l) ==
    IF l.frame_count < MaxFrames
    THEN [l EXCEPT !.pc = "sleep", !.frame_count = @ + 1, !.cur = 0]
    ELSE [l EXCEPT !.pc = "bound", !.cur = 0]

\* The while loop without `frame_count += 1`.
WhileCheck_NoCount(l) ==
    IF cams[l.cam].id \in DOMAIN world_cameras
    THEN IF l.frame_count < MaxFrames
         THEN [l EXCEPT !.pc = "sleep", !.cur = 0]
         ELSE [l EXCEPT !.pc = "bound", !.cur = 0]
    ELSE [l EXCEPT !.pc = "stopped", !.cur = 0]

\* camera_stream_loop from its while test to the per-tick sleep.  "bound" is
\* the loop at its while test once MaxFrames frames were made.
WhileCheck(l) ==
    IF cams[l.cam].id \in DOMAIN world_cameras
    THEN IF l.frame_count < MaxFrames
         THEN [l EXCEPT !.pc = "sleep", !.frame_count = @ + 1, !.cur = 0]
         ELSE [l EXCEPT !.pc = "bound", !.cur = 0]
    ELSE [l EXCEPT !.pc = "stopped", !.cur = 0]

\* The task starts running.
LoopStart(j) ==
    /\ loops[j].pc = "start"
    /\ loops' = [loops EXCEPT ![j] = WhileCheck(@)]
    /\ NoSend
    /\ UNCHANGED <<open, task, clients, player_positions, camera_subscribers,
                   worldVars, clock>>
    /\ UNCHANGED <<delivered, acked, terrain, renderVars>>

\* The fan-out sending to a subscriber without taking it off the list.
FanoutNext_Repeats(j, l, subsNow) ==
    /\ camera_subscribers' = subsNow
    /\ IF l.todo # {}
       THEN \E ws \in l.todo :
               /\ loops' = [loops EXCEPT ![j] = [l EXCEPT !.pc = "send", !.cur = ws]]
               /\ SendTo(ws, Msg("camera_frame", l.msg_id, FALSE, l.frame_count))
               /\ delivered' = IF open[ws]
                               THEN [delivered EXCEPT ![ws][l.cam] = <<@[2], l.frame_count>>]
                               ELSE delivered
       ELSE /\ loops' = [loops EXCEPT ![j] = WhileCheck(l)]
            /\ NoSend
            /\ UNCHANGED delivered

\* The fan-out `for ws in subscribers`, from the top of the loop: either the
\* next send is called, or the tick is over and the while test is made.
FanoutNext(j, l, subsNow) ==
    /\ camera_subscribers' = subsNow
    /\ IF l.todo # {}
       THEN \E ws \in l.todo :
               /\ loops' = [loops EXCEPT ![j] =
                              [l EXCEPT !.pc = "send", !.todo = @ \ {ws}, !.cur = ws]]
               /\ SendTo(ws, Msg("camera_frame", l.msg_id, FALSE, l.frame_count))
               /\ delivered' = IF open[ws]
                               THEN [delivered EXCEPT ![ws][l.cam] = <<@[2], l.frame_count>>]
                               ELSE delivered
       ELSE /\ loops' = [loops EXCEPT ![j] = WhileCheck(l)]
            /\ NoSend
            /\ UNCHANGED delivered

\* The tick with the frame sent to every client, subscribed or not.
LoopWake_AllClients(j) ==
    /\ loops[j].pc = "sleep"
    /\ LET l == loops[j]
           camera == cams[l.cam]
       IN FanoutNext(j, [l EXCEPT !.msg_id = camera.id, !.todo = clients],
                     camera_subscribers)
    /\ UNCHANGED <<open, task, clients, player_positions, worldVars, clock>>
    /\ UNCHANGED <<acked, terrain, renderVars>>

\* The sleep is over: render, compress, build the message, snapshot the
\* subscribers of camera.id and call the first send.
LoopWake(j) ==
    /\ loops[j].pc = "sleep"
    /\ LET l == loops[j]
           camera == cams[l.cam]
           subscribers == IF camera.id \in DOMAIN camera_subscribers
                          THEN camera_subscribers[camera.id] ELSE {}
       IN FanoutNext(j, [l EXCEPT !.msg_id = camera.id, !.todo = subscribers],
                     camera_subscribers)
    /\ UNCHANGED <<open, task, clients, player_positions, worldVars, clock>>
    /\ UNCHANGED <<acked, terrain, renderVars>>

\* The except branch of the fan-out removing the player of the failed
\* connection from the world as well.
LoopSendReturn_RemovesPlayer(j) ==
    /\ loops[j].pc = "send"
    /\ LET l == loops[j]
           ws == l.cur
           id == cams[l.cam].id
       IN IF open[ws]
          THEN FanoutNext(j, l, camera_subscribers) /\ UNCHANGED world_players
          ELSE /\ world_players' = remove_player(world_players, PlayerKey(ws))
               /\ IF id \in DOMAIN camera_subscribers
                  THEN FanoutNext(j, l, [camera_subscribers EXCEPT ![id] = @ \ {ws}])
                  ELSE /\ loops' = [loops EXCEPT ![j] =
                                      [l EXCEPT !.pc = "stopped", !.exc = TRUE, !.cur = 0]]
                       /\ NoSend
                       /\ UNCHANGED <<camera_subscribers, delivered>>
    /\ UNCHANGED <<open, task, clients, player_positions, world_cameras, cams, clock>>
    /\ UNCHANGED <<acked, terrain, renderVars>>

\* `await ws.send(message)` returns, or raises: the except branch discards ws
\* from camera_subscribers[camera.id], and a KeyError there leaves the loop
\* through its outer except.
LoopSendReturn(j) ==
    /\ loops[j].pc = "send"
    /\ LET l == loops[j]
           ws == l.cur
           id == cams[l.cam].id
       IN IF open[ws]
          THEN FanoutNext(j, l, camera_subscribers)
          ELSE IF id \in DOMAIN camera_subscribers
          THEN FanoutNext(j, l, [camera_subscribers EXCEPT ![id] = @ \ {ws}])
          ELSE /\ loops' = [loops EXCEPT ![j] =
                              [l EXCEPT !.pc = "stopped", !.exc = TRUE, !.cur = 0]]
               /\ NoSend
               /\ UNCHANGED <<camera_subscribers, delivered>>
    /\ UNCHANGED <<open, task, clients, player_positions, worldVars, clock>>
    /\ UNCHANGED <<acked, terrain, renderVars>>

\* ------------------------------------------------------- world snapshot
\* A coordinate h counts halves of a block: int(math.floor(h / 2)).
floor_coord(h) == h \div 2
floored_pos(position) ==
    <<floor_coord(position[1]), floor_coord(position[2]), floor_coord(position[3])>>

\* A terrain block at an integer cell, and a cube of a collection.
TerrainCube(cell) ==
    [block_type |-> "grass", position |-> <<2 * cell[1], 2 * cell[2], 2 * cell[3]>>]
ActorCube(block_type, position) == [block_type |-> block_type, position |-> position]

\* `for cube in collection.values(): all_blocks[floored_pos] = cube`, over the
\* cubes in iteration order.
RECURSIVE add_cubes(_, _)
add_cubes(blocks, cubes) ==
    IF cubes = <<>> THEN blocks
    ELSE add_cubes(Put(blocks, floored_pos(Head(cubes).position), Head(cubes)), Tail(cubes))

\* World.get_all_blocks with the dict filled the other way round: the cubes
\* first, the terrain blocks over them.
get_all_blocks_TerrainLast(world) ==
    LET cubes == add_cubes(EmptyDict, world.cameras \o world.ai_agents \o world.players
                                        \o world.special_cubes)
    IN [cell \in DOMAIN cubes \cup DOMAIN world.blocks |->
            IF cell \in DOMAIN world.blocks THEN world.blocks[cell] ELSE cubes[cell]]

\* World.get_all_blocks
get_all_blocks(world) ==
    add_cubes(world.blocks, world.cameras \o world.ai_agents \o world.players
                                \o world.special_cubes)

\* A call of World.get_all_blocks with the dict built in world.blocks itself
\* (`all_blocks = self.blocks`): the cubes are written into the terrain.
get_all_blocks_call_InPlace(world) ==
    [all_blocks |-> get_all_blocks(world),
     world |-> [world EXCEPT !.blocks = get_all_blocks(world)]]

\* A call of World.get_all_blocks: what it returns and the world it leaves.
\* `all_blocks = dict(self.blocks)` is a copy, and the cubes are written
\* into the copy.
get_all_blocks_call(world) ==
    [all_blocks |-> get_all_blocks(world), world |-> world]

NoWorld == [blocks |-> EmptyDict, cameras |-> <<>>, ai_agents |-> <<>>, players |-> <<>>,
            special_cubes |-> <<>>]
NoSnapshot == [taken |-> FALSE, blocks |-> EmptyDict]

\* ------------------------------------------------ renderers and the codec
\* server.py, lines 26-42: the flag is assigned False when the import succeeds
\* and False when it raises ImportError.
HAS_ULTRA_FAST_RENDERER(imports) == IF imports THEN FALSE ELSE FALSE
HAS_FAST_RENDERER(imports) == IF imports THEN FALSE ELSE FALSE

\* hash(frozenset((pos, block.block_type) for pos, block in world_blocks.items())),
\* modelled without collisions by the set of pairs itself.  NoHash is None.
NoHash == [none |-> TRUE, pairs |-> {}]
world_hash(world_blocks) ==
    [none |-> FALSE,
     pairs |-> {<<cell, world_blocks[cell].block_type>> : cell \in DOMAIN world_blocks}]

\* The geometry a renderer holds: nothing yet, the blocks of a snapshot
\* (complete), or what an interrupted update_world left (partial).  `at` is
\* the camera position the ultra-fast renderer selected its blocks around,
\* `from` the hash of the snapshot update_world was given.
NoPosition == <<0, 0, 0>>
NoGeometry == [built |-> "none", pairs |-> {}, at |-> NoPosition, from |-> NoHash]

RendererNames == {"Ultra-Fast Renderer", "Fast Optimized Renderer", "Pyglet Renderer"}

\* CubeCamera.__init__ with every renderer constructed with its default
\* resolution instead of the camera's.
InitRenderers_DefaultResolution(e, position, resolution) ==
    LET ultra == HAS_ULTRA_FAST_RENDERER(e.import_ultra) /\ e.ctor_ultra
        fast == ~ultra /\ HAS_FAST_RENDERER(e.import_fast) /\ e.ctor_fast
        pyglet == ~ultra /\ ~fast /\ e.import_pyglet /\ e.ctor_pyglet
    IN [created |-> TRUE, ultra_fast_renderer |-> ultra, fast_renderer |-> fast,
        pyglet_renderer |-> pyglet, position |-> position, rotation |-> <<0, 0>>,
        resolution |-> resolution, renderer_resolution |-> <<240, 180>>,
        world_cache_hash |-> NoHash, geometry |-> [v \in RendererNames |-> NoGeometry]]

\* CubeCamera.__init__ under host e: which renderer attributes are set (TRUE)
\* and which stay None (FALSE), the resolution the renderers were constructed
\* with, and the empty render cache.
InitRenderers(e, position, resolution) ==
    LET ultra == HAS_ULTRA_FAST_RENDERER(e.import_ultra) /\ e.ctor_ultra
        fast == ~ultra /\ HAS_FAST_RENDERER(e.import_fast) /\ e.ctor_fast
        pyglet == ~ultra /\ ~fast /\ e.import_pyglet /\ e.ctor_pyglet
    IN [created |-> TRUE, ultra_fast_renderer |-> ultra, fast_renderer |-> fast,
        pyglet_renderer |-> pyglet, position |-> position, rotation |-> <<0, 0>>,
        resolution |-> resolution, renderer_resolution |-> resolution,
        world_cache_hash |-> NoHash, geometry |-> [v \in RendererNames |-> NoGeometry]]

NoCamera == [created |-> FALSE, ultra_fast_renderer |-> FALSE, fast_renderer |-> FALSE,
             pyglet_renderer |-> FALSE, position |-> NoPosition, rotation |-> <<0, 0>>,
             resolution |-> <<0, 0>>, renderer_resolution |-> <<0, 0>>,
             world_cache_hash |-> NoHash, geometry |-> [v \in RendererNames |-> NoGeometry]]

\* CubeCamera.get_active_renderer_type
get_active_renderer_type(camera) ==
    IF camera.ultra_fast_renderer THEN "Ultra-Fast Renderer"
    ELSE IF camera.fast_renderer THEN "Fast Optimized Renderer"
    ELSE IF camera.pyglet_renderer THEN "Pyglet Renderer"
    ELSE "Original Ray Tracing"

\* Where a renderer variant throws in one render_view call: nowhere; in
\* update_world before it has touched its geometry (PygletCameraRenderer's
\* context.set_current()); in update_world after it has dropped the old
\* geometry; in render_camera_view.
FaultPoints == {"none", "update_enter", "update_world", "render_camera_view"}
Faults == [RendererNames -> FaultPoints]
NoFaults == [v \in RendererNames |-> "none"]

\* (x - cx)**2 + (y - cy)**2 + (z - cz)**2 < 400, the camera position counted
\* in halves of a block.
within_range(cell, position) ==
    LET dx == 2 * cell[1] - position[1]
        dy == 2 * cell[2] - position[2]
        dz == 2 * cell[3] - position[3]
    IN dx * dx + dy * dy + dz * dz < 4 * 400

\* update_world of a renderer variant, completed: the geometry it then holds.
\* UltraFastRenderer keeps the blocks within 20 units of the camera position
\* it is given (and of those the 20 nearest: the worlds here are smaller).
update_world(variant, world_blocks, position) ==
    LET pairs == world_hash(world_blocks).pairs
    IN IF variant = "Ultra-Fast Renderer"
       THEN [built |-> "full", pairs |-> {p \in pairs : within_range(p[1], position)},
             at |-> position, from |-> world_hash(world_blocks)]
       ELSE [built |-> "full", pairs |-> pairs, at |-> NoPosition,
             from |-> world_hash(world_blocks)]

\* update_world of a renderer variant, interrupted by an exception after the
\* blocks `kept` were added.  FastCameraRenderer and PygletCameraRenderer have
\* replaced their geometry by then; UltraFastRenderer assigns nearby_blocks in
\* its last statement only.
update_world_raises(variant, geometry, world_blocks, kept) ==
    IF variant = "Ultra-Fast Renderer" THEN geometry
    ELSE [built |-> "partial", pairs |-> kept, at |-> NoPosition,
          from |-> world_hash(world_blocks)]

\* One `if self.<renderer>: try: ... except` block of render_view: the world
\* hash is compared with the camera's _world_cache_hash, update_world is
\* called when they differ and the hash stored when it returns, and
\* render_camera_view is called.  ok: the block returned the frame.  `kept`
\* are the blocks an interrupted update_world has added before it raises (it
\* raises in one of its add calls, so not after the last).
try_renderer(camera, variant, world_blocks, fault, kept) ==
    LET hash == world_hash(world_blocks)
        stale == hash # camera.world_cache_hash
        updated == [camera EXCEPT
                      !.geometry[variant] = update_world(variant, world_blocks,
                                                         camera.position),
                      !.world_cache_hash = hash]
        current == IF stale THEN updated ELSE camera
    IN IF stale /\ fault = "update_enter"
       THEN [ok |-> FALSE, camera |-> camera]
       ELSE IF stale /\ fault = "update_world" /\ kept \cap hash.pairs # hash.pairs
       THEN [ok |-> FALSE,
             camera |-> [camera EXCEPT !.geometry[variant] =
                            update_world_raises(variant, @, world_blocks,
                                                kept \cap hash.pairs)]]
       ELSE IF fault = "render_camera_view"
       THEN [ok |-> FALSE, camera |-> current]
       ELSE [ok |-> TRUE, camera |-> current]

\* The orders of the pixel rows and columns that _add_visual_indicators writes
\* in: the LED rows 0..8 and the digit rows height-10..height-1, the columns
\* width-15..width-1.
indicator_rows(height) ==
    IF height >= 19
    THEN [i \in 1..19 |-> IF i <= 9 THEN i - 1 ELSE height - 20 + i]
    ELSE [i \in 1..height |-> i - 1]
indicator_cols(width) ==
    IF width >= 15 THEN [i \in 1..15 |-> width - 16 + i] ELSE [i \in 1..width |-> i - 1]

\* digit_patterns[digit][rel_y][rel_x], the indices counted from 1.
digit_patterns ==
    << <<<<1,1,1,1,1>>, <<1,0,0,0,1>>, <<1,0,0,0,1>>, <<1,0,0,0,1>>,
         <<1,0,0,0,1>>, <<1,0,0,0,1>>, <<1,0,0,0,1>>, <<1,1,1,1,1>>>>,
       <<<<0,0,1,0,0>>, <<0,1,1,0,0>>, <<0,0,1,0,0>>, <<0,0,1,0,0>>,
         <<0,0,1,0,0>>, <<0,0,1,0,0>>, <<0,0,1,0,0>>, <<1,1,1,1,1>>>>,
       <<<<1,1,1,1,1>>, <<0,0,0,0,1>>, <<0,0,0,0,1>>, <<1,1,1,1,1>>,
         <<1,0,0,0,0>>, <<1,0,0,0,0>>, <<1,0,0,0,0>>, <<1,1,1,1,1>>>>,
       <<<<1,1,1,1,1>>, <<0,0,0,0,1>>, <<0,0,0,0,1>>, <<1,1,1,1,1>>,
         <<0,0,0,0,1>>, <<0,0,0,0,1>>, <<0,0,0,0,1>>, <<1,1,1,1,1>>>>,
       <<<<1,0,0,0,1>>, <<1,0,0,0,1>>, <<1,0,0,0,1>>, <<1,1,1,1,1>>,
         <<0,0,0,0,1>>, <<0,0,0,0,1>>, <<0,0,0,0,1>>, <<0,0,0,0,1>>>>,
       <<<<1,1,1,1,1>>, <<1,0,0,0,0>>, <<1,0,0,0,0>>, <<1,1,1,1,1>>,
         <<0,0,0,0,1>>, <<0,0,0,0,1>>, <<0,0,0,0,1>>, <<1,1,1,1,1>>>>,
       <<<<1,1,1,1,1>>, <<1,0,0,0,0>>, <<1,0,0,0,0>>, <<1,1,1,1,1>>,
         <<1,0,0,0,1>>, <<1,0,0,0,1>>, <<1,0,0,0,1>>, <<1,1,1,1,1>>>>,
       <<<<1,1,1,1,1>>, <<0,0,0,0,1>>, <<0,0,0,0,1>>, <<0,0,0,0,1>>,
         <<0,0,0,0,1>>, <<0,0,0,0,1>>, <<0,0,0,0,1>>, <<0,0,0,0,1>>>>,
       <<<<1,1,1,1,1>>, <<1,0,0,0,1>>, <<1,0,0,0,1>>, <<1,1,1,1,1>>,
         <<1,0,0,0,1>>, <<1,0,0,0,1>>, <<1,0,0,0,1>>, <<1,1,1,1,1>>>>,
       <<<<1,1,1,1,1>>, <<1,0,0,0,1>>, <<1,0,0,0,1>>, <<1,1,1,1,1>>,
         <<0,0,0,0,1>>, <<0,0,0,0,1>>, <<0,0,0,0,1>>, <<1,1,1,1,1>>>> >>

\* led_on = (frame_count // 3) % 2 == 0
led_on(frame_count) == (frame_count \div 3) % 2 = 0

\* The pixel (px, py) is inside the LED block and its border.
in_led(px, py, width) == px >= width - 10 /\ py <= 8

\* The pixel (px, py) is a lit dot of the frame counter's digit.
in_digit(px, py, width, height, frame_count) ==
    /\ px >= width - 15
    /\ py >= height - 10
    /\ LET rel_x == px - (width - 15)
           rel_y == py - (height - 10)
       IN /\ rel_x < 5
          /\ rel_y < 8
          /\ digit_patterns[(frame_count % 10) + 1][rel_y + 1][rel_x + 1] = 1

\* The length of a bytearray of `len` bytes after the slice assignments
\* pixel_array[offset:offset+3] = [r, g, b] of _add_visual_indicators, the
\* pixels from the k-th of the row-major order on: an assignment at or past
\* the end appends its three bytes.
RECURSIVE indicators_length(_, _, _, _, _)
indicators_length(len, k, width, height, frame_count) ==
    LET rows == indicator_rows(height)
        cols == indicator_cols(width)
    IN IF k > Len(rows) * Len(cols) THEN len
       ELSE LET py == rows[((k - 1) \div Len(cols)) + 1]
                px == cols[((k - 1) % Len(cols)) + 1]
                written == in_led(px, py, width)
                              \/ in_digit(px, py, width, height, frame_count)
                offset == (py * width + px) * 3
            IN indicators_length(IF written /\ offset >= len THEN len + 3 ELSE len,
                                 k + 1, width, height, frame_count)

\* The number of bytes of the frame render_view returns when `producer` made
\* it.  The ultra-fast and fast renderers return their own height x width x 3
\* buffer; the Pyglet renderer's width*height*3 bytes get the camera's
\* indicators written over them; the ray tracing extends its list by three
\* values per pixel of the camera's resolution.
frame_length(camera, producer, frame_count) ==
    LET width == camera.resolution[1]
        height == camera.resolution[2]
        buffer == camera.renderer_resolution[1] * camera.renderer_resolution[2] * 3
    IN IF producer = "Original Ray Tracing" THEN height * width * 3
       ELSE IF producer = "Pyglet Renderer"
       THEN IF ((height - 1) * width + (width - 1)) * 3 < buffer
            THEN buffer
            ELSE indicators_length(buffer, 1, width, height, frame_count)
       ELSE buffer

\* CubeCamera.render_view on `world` with frame_count, the variants throwing as
\* `faults` says: the variants it invokes, the one that returns the frame, the
\* camera afterwards (an except branch only prints and falls through), the
\* hash of the snapshot, and of the frame: its length, what it shows outside
\* the indicators (the geometry rendered, from where) and the indicators.
render_view(camera, world, frame_count, faults, kept) ==
    LET world_blocks == get_all_blocks(world)
        tryUltra == camera.ultra_fast_renderer
        u == IF tryUltra
             THEN try_renderer(camera, "Ultra-Fast Renderer", world_blocks,
                               faults["Ultra-Fast Renderer"], kept)
             ELSE [ok |-> FALSE, camera |-> camera]
        tryFast == ~u.ok /\ camera.fast_renderer
        f == IF tryFast
             THEN try_renderer(u.camera, "Fast Optimized Renderer", world_blocks,
                               faults["Fast Optimized Renderer"], kept)
             ELSE [ok |-> FALSE, camera |-> u.camera]
        tryPyglet == ~u.ok /\ ~f.ok /\ camera.pyglet_renderer
        p == IF tryPyglet
             THEN try_renderer(f.camera, "Pyglet Renderer", world_blocks,
                               faults["Pyglet Renderer"], kept)
             ELSE [ok |-> FALSE, camera |-> f.camera]
        producer == IF u.ok THEN "Ultra-Fast Renderer"
                    ELSE IF f.ok THEN "Fast Optimized Renderer"
                    ELSE IF p.ok THEN "Pyglet Renderer"
                    ELSE "Original Ray Tracing"
    IN [invoked |-> (IF tryUltra THEN {"Ultra-Fast Renderer"} ELSE {})
                        \cup (IF tryFast THEN {"Fast Optimized Renderer"} ELSE {})
                        \cup (IF tryPyglet THEN {"Pyglet Renderer"} ELSE {})
                        \cup (IF u.ok \/ f.ok \/ p.ok THEN {} ELSE {"Original Ray Tracing"}),
        producer |-> producer,
        camera |-> p.camera,
        length |-> frame_length(p.camera, producer, frame_count),
        hash |-> world_hash(world_blocks),
        scene |-> [position |-> camera.position, rotation |-> camera.rotation,
                   geometry |-> IF producer = "Original Ray Tracing"
                                THEN \* _ray_march looks up world.get_all_blocks() itself
                                     [built |-> "full", pairs |-> world_hash(world_blocks).pairs,
                                      at |-> NoPosition, from |-> world_hash(world_blocks)]
                                ELSE p.camera.geometry[producer]],
        overlay |-> [led_on |-> led_on(frame_count), digit |-> frame_count % 10]]

\* MinecraftServer.compress_frame_jpeg: the encoding of the bytes it returns.
\* Without PIL (ImportError), or when the compression raises, they are the raw
\* frame data.
compress_frame_jpeg(pil, compression_raises) ==
    IF pil /\ ~compression_raises THEN "jpeg" ELSE "raw"

\* The camera_frame message of camera_stream_loop, lines 1452-1461, with what
\* render_view returned (r) for its "frame" member.
FrameMessage(camera, payload, r, n) ==
    [type |-> "camera_frame", format |-> "jpeg", payload |-> payload,
     width |-> camera.resolution[1], height |-> camera.resolution[2],
     renderer |-> get_active_renderer_type(camera), producer |-> r.producer, n |-> n,
     length |-> r.length, scene |-> r.scene, overlay |-> r.overlay, hash |-> r.hash]

NoScene == [position |-> NoPosition, rotation |-> <<0, 0>>, geometry |-> NoGeometry]
NoFrame == [type |-> "none", format |-> "none", payload |-> "none", width |-> 0,
            height |-> 0, renderer |-> "none", producer |-> "none", n |-> 0,
            length |-> 0, scene |-> NoScene, overlay |-> [led_on |-> FALSE, digit |-> 0],
            hash |-> NoHash]

\* The resolutions cameras are constructed with: the least a create_camera
\* request can get, the default of CubeCamera and the default of add_camera.
RenderResolutions == {<<160, 120>>, <<240, 180>>, <<320, 240>>}

\* The positions cameras are constructed at, in halves of a block.
RenderPositions == {<<0, 10, 0>>}

\* world.add_camera in handle_create_camera: the camera is constructed and
\* stored in world.cameras.
RenderCreate(position, resolution) ==
    /\ ~rcam.created
    /\ rcam' = InitRenderers(env, position, resolution)
    /\ rworld' = [rworld EXCEPT !.cameras = <<ActorCube("camera", position)>>]
    /\ UNCHANGED <<windows, env, rhist, frame, shot, all_blocks, ray, serverVars>>

\* One tick of camera_stream_loop between its sleep and its fan-out: render,
\* compress, build the message.  shot keeps the first frame a renderer
\* variant (not the ray tracing) returned.
RenderTick(faults, kept, compression_raises) ==
    /\ rcam.created
    /\ frame.n < MaxRenders
    /\ LET r == render_view(rcam, rworld, frame.n + 1, faults, kept)
           message == FrameMessage(r.camera,
                                   compress_frame_jpeg(env.pil, compression_raises),
                                   r, frame.n + 1)
       IN /\ rcam' = r.camera
          /\ rhist' = [raised |-> rhist.raised \cup (r.invoked \ {r.producer}),
                       raised_before |-> rhist.raised,
                       invoked |-> r.invoked]
          /\ frame' = message
          /\ shot' = IF shot.type = "none" /\ r.producer \in RendererNames
                     THEN message ELSE shot
    /\ UNCHANGED <<windows, env, rworld, all_blocks, ray, serverVars>>

\* handle_place_block, line 971: self.world.blocks[position] = Cube(position,
\* block_type), for a free cell.
PlaceInWorld(cell) ==
    /\ cell \notin DOMAIN rworld.blocks
    /\ rworld' = [rworld EXCEPT !.blocks = Put(@, cell, TerrainCube(cell))]
    /\ UNCHANGED <<windows, env, rcam, rhist, frame, shot, all_blocks, ray, serverVars>>

\* handle_destroy_block, line 987: del self.world.blocks[position].
DestroyInWorld(cell) ==
    /\ cell \in DOMAIN rworld.blocks
    /\ rworld' = [rworld EXCEPT !.blocks = Del(@, cell)]
    /\ UNCHANGED <<windows, env, rcam, rhist, frame, shot, all_blocks, ray, serverVars>>

\* Cube.move_to on the camera (handle_move_cube): the world's camera cube is
\* the camera object itself.
MoveRenderCamera(position) ==
    /\ rcam.created
    /\ rcam.position # position
    /\ rcam' = [rcam EXCEPT !.position = position]
    /\ rworld' = IF rworld.cameras = <<>> THEN rworld
                 ELSE [rworld EXCEPT !.cameras = <<ActorCube("camera", position)>>]
    /\ UNCHANGED <<windows, env, rhist, frame, shot, all_blocks, ray, serverVars>>

Hosts == [import_ultra : BOOLEAN, ctor_ultra : BOOLEAN, import_fast : BOOLEAN,
          ctor_fast : BOOLEAN, import_pyglet : BOOLEAN, ctor_pyglet : BOOLEAN,
          pil : BOOLEAN]

NoHost == [import_ultra |-> FALSE, ctor_ultra |-> FALSE, import_fast |-> FALSE,
           ctor_fast |-> FALSE, import_pyglet |-> FALSE, ctor_pyglet |-> FALSE,
           pil |-> FALSE]

NoHistory == [raised |-> {}, raised_before |-> {}, invoked |-> {}]

\* ------------------------------------------------------ snapshot reads
\* render_view reads the world: world.get_all_blocks().
TakeSnapshot ==
    /\ ~all_blocks.taken
    /\ all_blocks' = [taken |-> TRUE, blocks |-> get_all_blocks(rworld)]
    /\ UNCHANGED <<windows, env, rcam, rhist, frame, shot, rworld, ray, serverVars>>

\* world.get_all_blocks() called once more (every render_view call does).
SnapshotWorld ==
    /\ all_blocks' = [taken |-> TRUE, blocks |-> get_all_blocks_call(rworld).all_blocks]
    /\ rworld' = get_all_blocks_call(rworld).world
    /\ UNCHANGED <<windows, env, rcam, rhist, frame, shot, ray, serverVars>>

\* The collections of World that hold actors.
ActorCollections == {"cameras", "ai_agents", "players"}
ActorType(collection) ==
    CASE collection = "cameras" -> "camera"
      [] collection = "ai_agents" -> "ai_agent"
      [] OTHER -> "player"

\* World.move_cube on the actor of a collection: Cube.move_to.
MoveActor(collection, position) ==
    /\ rworld[collection] # <<>>
    /\ rworld[collection][1].position # position
    /\ rworld' = [rworld EXCEPT ![collection] =
                     <<ActorCube(ActorType(collection), position)>>]
    /\ UNCHANGED <<windows, env, rcam, rhist, frame, shot, all_blocks, ray, serverVars>>

\* World.remove_cube on the actor of a collection: `del collection[cube_id]`.
RemoveActor(collection) ==
    /\ rworld[collection] # <<>>
    /\ rworld' = [rworld EXCEPT ![collection] = <<>>]
    /\ UNCHANGED <<windows, env, rcam, rhist, frame, shot, all_blocks, ray, serverVars>>

\* ------------------------------------------------------------ ray tracing
\* World.generate_world's ground: a grass block at (x, 0, z) for x and z in
\* range(-size, size); of the size 20 of the server's world, the part within
\* GroundSize cells of the origin.
GroundSize == 6
PlaneWorld ==
    [NoWorld EXCEPT !.blocks =
        [cell \in {<<x, 0, z>> : x \in -GroundSize..(GroundSize - 1),
                                 z \in -GroundSize..(GroundSize - 1)} |-> TerrainCube(cell)]]

\* math.tan(fov_rad / 2) for fov = 70: 0.7002..., as the fraction 7/10.
tan_half_fov == <<7, 10>>

\* math.cos and math.sin of an angle in degrees that is a multiple of 90.
cos_deg(a) == CASE a % 360 = 0 -> 1 [] a % 360 = 90 -> 0
                [] a % 360 = 180 -> -1 [] a % 360 = 270 -> 0
sin_deg(a) == CASE a % 360 = 0 -> 0 [] a % 360 = 90 -> 1
                [] a % 360 = 180 -> 0 [] a % 360 = 270 -> -1

\* The ray of pixel (px, py) before it is normalised, every component
\* multiplied by height * 10: screen_x * tan = (2 px - width) * 7 / (height * 10),
\* screen_y * tan = (height - 2 py) * 7 / (height * 10), ray_z = 1; then the
\* rotation by yaw around Y and by pitch around X.
ray_direction(px, py, width, height, rotation) ==
    LET ray_x == (2 * px - width) * tan_half_fov[1]
        ray_y == (height - 2 * py) * tan_half_fov[1]
        ray_z == height * tan_half_fov[2]
        cos_yaw == cos_deg(rotation[1])
        sin_yaw == sin_deg(rotation[1])
        temp_x == ray_x * cos_yaw - ray_z * sin_yaw
        yawed_z == ray_x * sin_yaw + ray_z * cos_yaw
        cos_pitch == cos_deg(rotation[2])
        sin_pitch == sin_deg(rotation[2])
        temp_y == ray_y * cos_pitch - yawed_z * sin_pitch
        temp_z == ray_y * sin_pitch + yawed_z * cos_pitch
    IN <<temp_x, temp_y, temp_z>>

\* max_iterations = int(max_dist / step), max_dist = 20, step = 1.0
max_iterations == 20

\* The integer square root, for the numbers up to (2 * max_iterations)^2.
isqrt ==
    [y \in 0..(4 * max_iterations * max_iterations) |->
        CHOOSE m \in 0..(2 * max_iterations) : m * m <= y /\ y < (m + 1) * (m + 1)]

\* floor(2 * d * i) for the component d = v / sqrt(length2) of the normalised
\* ray: the ray's advance after i steps, in half blocks.
march_offset(v, i, length2) ==
    LET x == 4 * v * v * i * i
        y == x \div length2
        m == isqrt[y]
    IN IF v >= 0 THEN m
       ELSE IF x % length2 = 0 /\ m * m = y THEN -m ELSE -(m + 1)

\* block_pos = (floor(ox + dx*i*step), floor(oy + dy*i*step), floor(oz + dz*i*step))
march_cell(position, direction, i) ==
    LET length2 == direction[1] * direction[1] + direction[2] * direction[2]
                       + direction[3] * direction[3]
    IN <<floor_coord(position[1] + march_offset(direction[1], i, length2)),
         floor_coord(position[2] + march_offset(direction[2], i, length2)),
         floor_coord(position[3] + march_offset(direction[3], i, length2))>>

\* The colour _ray_march returns for a block.
block_colour(block_type) ==
    CASE block_type = "grass" -> <<34, 139, 34>>
      [] block_type = "stone" -> <<128, 128, 128>>
      [] block_type = "player" -> <<0, 150, 255>>
      [] block_type = "camera" -> <<255, 255, 0>>
      [] block_type = "ai_agent" -> <<255, 0, 255>>
      [] OTHER -> <<139, 69, 19>>

\* The sky of _ray_march in one colour.
sky_colour_OneTone(dy) == <<135, 206, 235>>

\* The sky of _ray_march: by the sign of the ray's vertical component.
sky_colour(dy) == IF dy > 0 THEN <<135, 206, 235>> ELSE <<100, 149, 237>>

\* CubeCamera._ray_march from its i-th iteration on; the first is i = 0, the
\* camera's own position.
RECURSIVE ray_march(_, _, _, _)
ray_march(i, position, direction, blocks) ==
    IF i >= max_iterations THEN sky_colour(direction[2])
    ELSE LET block_pos == march_cell(position, direction, i)
         IN IF block_pos \in DOMAIN blocks
            THEN block_colour(blocks[block_pos].block_type)
            ELSE ray_march(i + 1, position, direction, blocks)

\* The indicators painted before the scene: the colour of the ray stays.
overlay_colour_Under(px, py, width, height, frame_count, colour) == colour

\* The indicators _render_view_raytracing paints over the colour of a pixel.
overlay_colour(px, py, width, height, frame_count, colour) ==
    LET led == IF px >= width - 10 /\ py <= 8
               THEN IF px >= width - 8 /\ py <= 6
                    THEN IF led_on(frame_count) THEN <<0, 255, 0>> ELSE <<0, 120, 0>>
                    ELSE IF led_on(frame_count) THEN <<0, 200, 0>> ELSE <<0, 80, 0>>
               ELSE colour
    IN IF in_digit(px, py, width, height, frame_count) THEN <<255, 255, 0>> ELSE led

\* One pixel of _render_view_raytracing.
render_pixel(camera, world, px, py, frame_count) ==
    LET width == camera.resolution[1]
        height == camera.resolution[2]
        direction == ray_direction(px, py, width, height, camera.rotation)
        color == ray_march(0, camera.position, direction, get_all_blocks(world))
    IN [cast |-> TRUE, px |-> px, py |-> py, width |-> width, height |-> height,
        position |-> camera.position, rotation |-> camera.rotation,
        frame_count |-> frame_count, direction |-> direction, march |-> color,
        colour |-> overlay_colour(px, py, width, height, frame_count, color),
        producer |-> "Original Ray Tracing"]

\* No ray cast yet.
NoRay == [cast |-> FALSE, px |-> 0, py |-> 0, width |-> 0, height |-> 0,
          position |-> NoPosition, rotation |-> <<0, 0>>, frame_count |-> 0,
          direction |-> <<0, 0, 0>>, march |-> <<0, 0, 0>>, colour |-> <<0, 0, 0>>,
          producer |-> "none"]

\* _add_visual_indicators: what it leaves at the pixel (px, py) of the array
\* the Pyglet renderer returned, `colour` being there before.
add_visual_indicators(px, py, width, height, frame_count, colour) ==
    LET led == IF px >= width - 10 /\ py <= 8
               THEN IF px >= width - 8 /\ py <= 6
                    THEN IF led_on(frame_count) THEN <<0, 255, 0>> ELSE <<0, 120, 0>>
                    ELSE IF led_on(frame_count) THEN <<0, 200, 0>> ELSE <<0, 80, 0>>
               ELSE colour
    IN IF in_digit(px, py, width, height, frame_count) THEN <<255, 255, 0>> ELSE led

\* Colours the Pyglet renderer draws a pixel in: a grass block's, a camera
\* cube's (the colour of the digit) or the clear colour of the sky.
SceneColours == {<<34, 139, 34>>, <<255, 255, 0>>, <<127, 175, 255>>}

\* render_view of a camera whose Pyglet renderer returns the frame, for the
\* pixel (px, py) that the renderer drew in `colour`.
PygletPixel(px, py, frame_count, colour) ==
    /\ rcam.created
    /\ get_active_renderer_type(rcam) = "Pyglet Renderer"
    /\ ray' = [cast |-> TRUE, px |-> px, py |-> py, width |-> rcam.resolution[1],
               height |-> rcam.resolution[2], position |-> rcam.position,
               rotation |-> rcam.rotation, frame_count |-> frame_count,
               direction |-> <<0, 0, 0>>, march |-> colour,
               colour |-> add_visual_indicators(px, py, rcam.resolution[1],
                                                rcam.resolution[2], frame_count, colour),
               producer |-> "Pyglet Renderer"]
    /\ UNCHANGED <<windows, env, rcam, rworld, rhist, frame, shot, all_blocks, serverVars>>

\* CubeCamera(position, name, resolution) constructed by itself, as the test
\* scripts do: the camera is in no world.
StandaloneCamera(position, resolution) ==
    /\ ~rcam.created
    /\ rcam' = InitRenderers(env, position, resolution)
    /\ UNCHANGED <<windows, env, rworld, rhist, frame, shot, all_blocks, ray, serverVars>>

\* The yaws whose sine and cosine the model has.
RayYaws == {0, 90}

\* camera.rotate(yaw_delta, pitch_delta)
RenderRotate(yaw_delta, pitch_delta) ==
    /\ rcam.created
    /\ rcam.rotation[1] + yaw_delta \in RayYaws
    /\ rcam' = rotate(rcam, yaw_delta, pitch_delta)
    /\ rcam'.rotation # rcam.rotation
    /\ UNCHANGED <<windows, env, rworld, rhist, frame, shot, all_blocks, ray, serverVars>>

\* render_view of a camera without renderer, for the pixel (px, py).
CastRay(px, py, frame_count) ==
    /\ rcam.created
    /\ get_active_renderer_type(rcam) = "Original Ray Tracing"
    /\ ray' = render_pixel(rcam, rworld, px, py, frame_count)
    /\ UNCHANGED <<windows, env, rcam, rworld, rhist, frame, shot, all_blocks, serverVars>>

\* ---------------------------------------------------------------- windows
\* CubeWindow.__init__ and PygletCameraWindow.__init__.  window: None ("none"),
\* a pyglet window ("open") or a pyglet window that was closed ("closed");
\* threads: the window threads ever started, the last being window_thread;
\* pc: where the caller of activate/deactivate is; returned: the call that
\* returned last, no other call made since.
NewWindow == [is_active |-> FALSE, window |-> "none", should_run |-> FALSE,
              threads |-> <<>>, pc |-> "idle", returned |-> "none"]

\* CubeCamera.windows of a camera whose window is not part of the run.
NoWindow == [NewWindow EXCEPT !.pc = "absent"]

\* CubeCamera.is_window_active: `self.windows and self.windows.is_active`.
is_window_active(w) == w.is_active

\* CubeWindow.deactivate closing the window whenever there is one.
deactivate_Always(w) ==
    [w EXCEPT !.window = "none", !.is_active = FALSE]

\* CubeWindow.deactivate
deactivate(w) ==
    IF w.is_active /\ w.window # "none"
    THEN [w EXCEPT !.window = "none", !.is_active = FALSE]
    ELSE w

\* CubeWindow.activate up to the sleep of create_window: an active window
\* returns at once, and so does create_window when self.window is set;
\* otherwise the window thread is started.
ActivateCall ==
    /\ windows.pc = "idle"
    /\ IF windows.is_active
       THEN windows' = [windows EXCEPT !.returned = "activate"]
       ELSE IF windows.window # "none"
       THEN windows' = [windows EXCEPT !.is_active = TRUE, !.returned = "activate"]
       ELSE /\ Len(windows.threads) < MaxThreads
            /\ windows' = [windows EXCEPT !.should_run = TRUE,
                                          !.threads = Append(@, "started"),
                                          !.pc = "activating", !.returned = "none"]
    /\ UNCHANGED <<env, rcam, rhist, frame, rworld, all_blocks, shot, ray, serverVars>>

\* time.sleep(0.1) is over: `self.is_active = True`.
ActivateReturn ==
    /\ windows.pc = "activating"
    /\ windows' = [windows EXCEPT !.is_active = TRUE, !.pc = "idle",
                                  !.returned = "activate"]
    /\ UNCHANGED <<env, rcam, rhist, frame, rworld, all_blocks, shot, ray, serverVars>>

\* PygletCameraWindow.deactivate up to the join of the window thread.
DeactivateCall ==
    /\ windows.pc = "idle"
    /\ windows' = [windows EXCEPT !.should_run = FALSE, !.pc = "joining",
                                  !.returned = "none"]
    /\ UNCHANGED <<env, rcam, rhist, frame, rworld, all_blocks, shot, ray, serverVars>>

\* join(timeout=1.0) returns: the thread has ended, or the timeout expired
\* with the thread still creating its window or inside an iteration of its
\* event loop.  super().deactivate().
DeactivateReturn ==
    /\ windows.pc = "joining"
    /\ windows' = [deactivate(windows) EXCEPT !.pc = "idle", !.returned = "deactivate"]
    /\ UNCHANGED <<env, rcam, rhist, frame, rworld, all_blocks, shot, ray, serverVars>>

\* _run_window of thread i creates its window: pyglet.window.Window raises
\* (failed), or the window is there and _setup_opengl raises (the finally
\* clause closes it), or the thread enters its event loop.
ThreadCreate(i, outcome) ==
    /\ i \in 1..Len(windows.threads)
    /\ windows.threads[i] = "started"
    /\ windows' =
          CASE outcome = "failed" -> [windows EXCEPT !.threads[i] = "ended"]
            [] outcome = "setup_failed" ->
                  [windows EXCEPT !.threads[i] = "ended", !.window = "closed"]
            [] OTHER -> [windows EXCEPT !.threads[i] = "running", !.window = "open"]
    /\ UNCHANGED <<env, rcam, rhist, frame, rworld, all_blocks, shot, ray, serverVars>>

\* The on_close event of the window, dispatched by the event loop of thread i.
OnClose(i) ==
    /\ i \in 1..Len(windows.threads)
    /\ windows.threads[i] = "running"
    /\ windows.should_run
    /\ windows.window = "open"
    /\ windows' = [windows EXCEPT !.should_run = FALSE, !.is_active = FALSE]
    /\ UNCHANGED <<env, rcam, rhist, frame, rworld, all_blocks, shot, ray, serverVars>>

\* Thread i leaves its event loop (should_run is False, or self.window is no
\* open window any more): the finally clause closes self.window if it is set.
ThreadExit(i) ==
    /\ i \in 1..Len(windows.threads)
    /\ windows.threads[i] = "running"
    /\ ~windows.should_run \/ windows.window # "open"
    /\ windows' = [windows EXCEPT !.threads[i] = "ended",
                                  !.window = IF @ = "none" THEN "none" ELSE "closed"]
    /\ UNCHANGED <<env, rcam, rhist, frame, rworld, all_blocks, shot, ray, serverVars>>

\* ---------------------------------------------------------------- initial
InitServer ==
    /\ open = [c \in Conns |-> FALSE]
    /\ task = [c \in Conns |-> IdleTask]
    /\ clients = {}
    /\ player_positions = EmptyDict
    /\ camera_subscribers = EmptyDict
    /\ world_players = EmptyDict
    /\ world_cameras = EmptyDict
    /\ cams = <<>>
    /\ loops = <<>>
    /\ clock = 1
    /\ nsent = [c \in Conns |-> 0]
    /\ wire = NoWire
    /\ delivered = [c \in Conns |-> [i \in 1..MaxCams |-> <<0, 0>>]]
    /\ acked = [c \in Conns |-> {}]
    /\ terrain = generate_world

Init ==
    /\ InitServer
    /\ env = NoHost
    /\ windows = NoWindow
    /\ rcam = NoCamera
    /\ rhist = NoHistory
    /\ frame = NoFrame
    /\ rworld = NoWorld
    /\ all_blocks = NoSnapshot
    /\ shot = NoFrame
    /\ ray = NoRay

\* ----------------------------------------------------------- next states
\* The ids a client may name in a request: the keys and ids of the cubes, an
\* id of no cube, and no id at all.
CameraRequestIds ==
    DOMAIN world_cameras \cup {cams[i].id : i \in 1..Len(cams)} \cup {BogusId, NoId}
CubeRequestIds == CameraRequestIds \cup DOMAIN world_players

ConnNext ==
    \/ \E c \in Conns : Connect(c)
    \/ \E c \in Conns : HsWorldReturn(c)
    \/ \E c \in Conns : BcastReturn(c)
    \/ \E c \in Conns : Close(c)
    \/ \E c \in Conns : Cleanup(c)

SubscribeNext ==
    \E c \in Conns, id \in CameraRequestIds : SubscribeCamera(c, id)

ControlNext ==
    \/ \E c \in Conns, id \in CameraRequestIds, d \in Deltas :
            ControlCamera(c, id, MoveRequest(d))
    \/ \E c \in Conns, id \in CameraRequestIds :
            ControlCamera(c, id, RotateRequest(0, 0))

CameraNext == SubscribeNext \/ ControlNext

LoopNext ==
    \/ \E j \in 1..Len(loops) : LoopStart(j)
    \/ \E j \in 1..Len(loops) : LoopWake(j)
    \/ \E j \in 1..Len(loops) : LoopSendReturn(j)

ProtocolNext == \E c \in Conns, m \in BadMessages : BadMessage(c, m)

\* The whole server.
Next ==
    \/ ConnNext
    \/ ProtocolNext
    \/ \E c \in Conns, p \in Positions, t \in 1..MaxClock : CreateCamera(c, p, NoResolution, t)
    \/ CameraNext
    \/ \E c \in Conns, id \in CubeRequestIds, p \in Positions : MoveCube(c, id, p)
    \/ \E c \in Conns, id \in CubeRequestIds : RemoveCube(c, id)
    \/ LoopNext

Spec == Init /\ [][Next]_vars

\* The world's cameras under the clients' control, move and remove commands,
\* with no subscription made and the streaming tasks not scheduled.
NextWorld ==
    \/ ConnNext
    \/ \E c \in Conns, p \in Positions, t \in 1..MaxClock : CreateCamera(c, p, NoResolution, t)
    \/ ControlNext
    \/ \E c \in Conns, id \in CameraRequestIds, p \in Positions : MoveCube(c, id, p)
    \/ \E c \in Conns, id \in CameraRequestIds : RemoveCube(c, id)

SpecWorld == Init /\ [][NextWorld]_vars

\* Connections joining and leaving while clients move and remove player cubes.
NextHandshake ==
    \/ ConnNext
    \/ \E c \in Conns, id \in DOMAIN world_players \cup {BogusId}, p \in Positions :
            MoveCube(c, id, p)
    \/ \E c \in Conns, id \in DOMAIN world_players \cup {BogusId} : RemoveCube(c, id)

SpecHandshake == Init /\ [][NextHandshake]_vars

\* Connections joining and leaving while clients report their positions and
\* move and remove player cubes.
NextPlayers ==
    \/ ConnNext
    \/ \E c \in Conns, p \in Positions : PlayerPositionUpdate(c, p)
    \/ \E c \in Conns, id \in DOMAIN world_players \cup {BogusId}, p \in Positions :
            MoveCube(c, id, p)
    \/ \E c \in Conns, id \in DOMAIN world_players \cup {BogusId} : RemoveCube(c, id)

SpecPlayers == Init /\ [][NextPlayers]_vars

\* Connections joining and leaving while clients place and destroy blocks.
NextBlocks ==
    \/ ConnNext
    \/ \E c \in Conns, position \in BlockPositions : PlaceBlock(c, position)
    \/ \E c \in Conns, position \in BlockPositions : DestroyBlock(c, position)

SpecBlocks == Init /\ [][NextBlocks]_vars

\* Connections joining and leaving while clients ask for the player positions.
NextPositions ==
    \/ ConnNext
    \/ \E c \in Conns : GetPlayerPositions(c)

SpecPositions == Init /\ [][NextPositions]_vars

\* The event loop resumes every task whose awaited send has completed or
\* failed, and every task whose `async for` has a closed connection to report.
FairConn ==
    \A c \in Conns :
        /\ WF_vars(HsWorldReturn(c))
        /\ WF_vars(BcastReturn(c))
        /\ WF_vars(Cleanup(c))

SpecHandshakeFair == SpecHandshake /\ FairConn

\* create_camera for up to MaxStreamCams cameras, the clock read at up to
\* MaxStreamClock.
StreamCreate ==
    \E c \in Conns, p \in Positions, t \in 1..MaxStreamClock :
        Len(cams) < MaxStreamCams /\ CreateCamera(c, p, NoResolution, t)

\* The streaming loops of up to MaxStreamCams cameras under the clients' camera
\* commands.
NextStream ==
    \/ ConnNext
    \/ StreamCreate
    \/ CameraNext
    \/ \E c \in Conns, id \in CameraRequestIds, p \in Positions : MoveCube(c, id, p)
    \/ \E c \in Conns, id \in CameraRequestIds : RemoveCube(c, id)
    \/ LoopNext

SpecStream == Init /\ [][NextStream]_vars

\* The event loop also resumes every streaming task whose sleep is over or
\* whose send has completed or failed.
FairLoops ==
    \A j \in 1..MaxStreamCams + MaxConns :
        /\ WF_vars(j \in 1..Len(loops) /\ LoopStart(j))
        /\ WF_vars(j \in 1..Len(loops) /\ LoopWake(j))
        /\ WF_vars(j \in 1..Len(loops) /\ LoopSendReturn(j))

SpecStreamFair == SpecStream /\ FairConn /\ FairLoops

\* One camera's stream to its subscribers, who come, go and remove the camera.
NextFrames ==
    \/ ConnNext
    \/ StreamCreate
    \/ SubscribeNext
    \/ \E c \in Conns, id \in CameraRequestIds : RemoveCube(c, id)
    \/ LoopNext

SpecFrames == Init /\ [][NextFrames]_vars

\* The streaming tasks of up to MaxCams cameras under create_camera and
\* subscribe_camera requests of every client, two reads of the clock being
\* free to return the same time.
NextLoops ==
    \/ ConnNext
    \/ \E c \in Conns, t \in 1..MaxClock : CreateCamera(c, <<0, 2, 0>>, NoResolution, t)
    \/ SubscribeNext
    \/ LoopNext

SpecLoops == Init /\ [][NextLoops]_vars

\* The clients' camera and cube requests, the streaming tasks not scheduled.
NextRequests ==
    \/ ConnNext
    \/ StreamCreate
    \/ SubscribeNext
    \/ ControlNext
    \/ \E c \in Conns, id \in CameraRequestIds, p \in Positions : MoveCube(c, id, p)
    \/ \E c \in Conns, id \in CameraRequestIds : RemoveCube(c, id)

SpecRequests == Init /\ [][NextRequests]_vars

\* Connections with subscriptions that send messages no handler accepts.
NextProtocol ==
    \/ ConnNext
    \/ StreamCreate
    \/ SubscribeNext
    \/ ProtocolNext

SpecProtocol == Init /\ [][NextProtocol]_vars

\* A camera under rotate requests, its yaw kept within MaxYaw.
RotateNext ==
    \E c \in Conns, id \in DOMAIN world_cameras \cup {BogusId},
       yaw \in YawDeltas, pitch \in PitchDeltas :
        /\ id \in DOMAIN world_cameras =>
               LET y == cams[world_cameras[id]].rotation[1] + yaw
               IN y <= MaxYaw /\ -y <= MaxYaw
        /\ ControlCamera(c, id, RotateRequest(yaw, pitch))

NextRotate ==
    \/ ConnNext
    \/ StreamCreate
    \/ RotateNext

SpecRotate == Init /\ [][NextRotate]_vars

\* The resolutions a create_camera request may carry: none, lists of two
\* numbers below, inside and above the limits, lists of another length, a list
\* of two values that are no numbers, and a value that is no list.
RequestedWidths == {0, 159, 640, 5000}
RequestedHeights == {0, 119, 480, 5000}
ResolutionRequests ==
    {NoResolution}
        \cup {ResolutionList(<<w, h>>) : w \in RequestedWidths, h \in RequestedHeights}
        \cup {ResolutionList(<<>>), ResolutionList(<<640>>), ResolutionList(<<640, 480, 3>>)}
        \cup {[kind |-> "list", v |-> <<0, 0>>, numeric |-> FALSE],
              [kind |-> "string", v |-> <<>>, numeric |-> FALSE]}

\* Cameras created with any requested resolution.
NextResolution ==
    \/ ConnNext
    \/ \E c \in Conns, p \in Positions, r \in ResolutionRequests, t \in 1..MaxStreamClock :
            CreateCamera(c, p, r, t)

SpecResolution == Init /\ [][NextResolution]_vars

\* One camera's renderers and the codec, on any host.
InitRender ==
    /\ InitServer
    /\ env \in Hosts
    /\ windows = NoWindow
    /\ rcam = NoCamera
    /\ rhist = NoHistory
    /\ frame = NoFrame
    /\ rworld = NoWorld
    /\ all_blocks = NoSnapshot
    /\ shot = NoFrame
    /\ ray = NoRay

NextRender ==
    \/ \E position \in RenderPositions, resolution \in RenderResolutions :
            RenderCreate(position, resolution)
    \/ \E faults \in Faults, kept \in {{}}, compression_raises \in BOOLEAN :
            RenderTick(faults, kept, compression_raises)

SpecRender == InitRender /\ [][NextRender]_vars

\* One camera's render cache while blocks are placed and destroyed and the
\* camera is moved: hosts on which every module imports, the Pyglet renderer
\* constructed or not, the renderer raising at any point of any tick.
CacheHosts ==
    {h \in Hosts : /\ h.import_ultra /\ h.ctor_ultra /\ h.import_fast /\ h.ctor_fast
                   /\ h.import_pyglet /\ h.pil}
CacheCells == {<<0, 4, 0>>}
CachePositions == {<<0, 10, 0>>, <<2, 10, 0>>}
CachePairs ==
    {<<cell, "grass">> : cell \in CacheCells}
        \cup {<<floored_pos(p), "camera">> : p \in CachePositions}
CacheFaults ==
    {f \in Faults : f["Ultra-Fast Renderer"] = "none" /\ f["Fast Optimized Renderer"] = "none"}

InitCache ==
    /\ InitServer
    /\ env \in CacheHosts
    /\ windows = NoWindow
    /\ rcam = NoCamera
    /\ rhist = NoHistory
    /\ frame = NoFrame
    /\ rworld = NoWorld
    /\ all_blocks = NoSnapshot
    /\ shot = NoFrame
    /\ ray = NoRay

NextCache ==
    \/ \E position \in CachePositions : RenderCreate(position, <<240, 180>>)
    \/ \E faults \in CacheFaults, kept \in SUBSET CachePairs, compression_raises \in BOOLEAN :
            RenderTick(faults, kept, compression_raises)
    \/ \E cell \in CacheCells : PlaceInWorld(cell)
    \/ \E cell \in CacheCells : DestroyInWorld(cell)
    \/ \E position \in CachePositions : MoveRenderCamera(position)

SpecCache == InitCache /\ [][NextCache]_vars

\* The ray tracing of one camera, inside or outside a world that is empty or
\* the grass ground, under the rotations by quarter turns, for the pixels at
\* the borders of the frame, of its halves and of the indicators.
RayHosts ==
    {h \in Hosts : /\ ~h.import_ultra /\ ~h.ctor_ultra /\ ~h.import_fast /\ ~h.ctor_fast
                   /\ ~h.import_pyglet /\ ~h.ctor_pyglet /\ h.pil}
RayCols == {0, 40, 65, 70, 79}
RayRows == {0, 9, 29, 30, 50, 59}
RayFrameCounts == {1, 3}

InitRay ==
    /\ InitServer
    /\ env \in RayHosts
    /\ windows = NoWindow
    /\ rcam = NoCamera
    /\ rhist = NoHistory
    /\ frame = NoFrame
    /\ rworld \in {NoWorld, PlaneWorld}
    /\ all_blocks = NoSnapshot
    /\ shot = NoFrame
    /\ ray = NoRay

NextRay ==
    \/ RenderCreate(<<0, 10, 0>>, <<80, 60>>)
    \/ StandaloneCamera(<<0, 10, 0>>, <<80, 60>>)
    \/ \E yaw_delta \in {0, 90}, pitch_delta \in {-90, 0, 90} :
            RenderRotate(yaw_delta, pitch_delta)
    \/ \E px \in RayCols, py \in RayRows, frame_count \in RayFrameCounts :
            CastRay(px, py, frame_count)

SpecRay == InitRay /\ [][NextRay]_vars

\* The indicators of the frames of one camera, made by the Pyglet renderer or
\* by the ray tracing, for pixels in and around the two indicator blocks.
OverlayHosts ==
    {h \in Hosts : /\ ~h.import_ultra /\ ~h.ctor_ultra /\ ~h.import_fast /\ ~h.ctor_fast
                   /\ h.import_pyglet = h.ctor_pyglet /\ h.pil}
OverlayCols == {65, 67, 71, 79}
OverlayRows == {0, 8, 9, 50}
OverlayFrameCounts == {1, 3}

InitOverlay ==
    /\ InitServer
    /\ env \in OverlayHosts
    /\ windows = NoWindow
    /\ rcam = NoCamera
    /\ rhist = NoHistory
    /\ frame = NoFrame
    /\ rworld \in {NoWorld, PlaneWorld}
    /\ all_blocks = NoSnapshot
    /\ shot = NoFrame
    /\ ray = NoRay

NextOverlay ==
    \/ RenderCreate(<<0, 10, 0>>, <<80, 60>>)
    \/ StandaloneCamera(<<0, 10, 0>>, <<80, 60>>)
    \/ \E pitch_delta \in {-90, 90} : RenderRotate(0, pitch_delta)
    \/ \E px \in OverlayCols, py \in OverlayRows, frame_count \in OverlayFrameCounts :
            CastRay(px, py, frame_count)
    \/ \E px \in OverlayCols, py \in OverlayRows, frame_count \in OverlayFrameCounts,
          colour \in SceneColours : PygletPixel(px, py, frame_count, colour)

SpecOverlay == InitOverlay /\ [][NextOverlay]_vars

\* Worlds of a few terrain cells with at most one camera, one AI agent and one
\* player, at whole and fractional coordinates on both sides of zero.
TerrainCells == {<<x, 0, 0>> : x \in -1..1}
HalfPositions == {<<hx, hy, 0>> : hx \in -1..2, hy \in 0..1}
Collections(block_type) ==
    {<<>>} \cup {<<ActorCube(block_type, p)>> : p \in HalfPositions}
SnapshotWorlds ==
    {[blocks |-> [cell \in cells |-> TerrainCube(cell)], cameras |-> cs, ai_agents |-> as,
      players |-> ps, special_cubes |-> <<>>] :
        cells \in SUBSET TerrainCells, cs \in Collections("camera"),
        as \in Collections("ai_agent"), ps \in Collections("player")}

InitSnapshot ==
    /\ InitServer
    /\ env = NoHost
    /\ windows = NoWindow
    /\ rcam = NoCamera
    /\ rhist = NoHistory
    /\ frame = NoFrame
    /\ rworld \in SnapshotWorlds
    /\ all_blocks = NoSnapshot
    /\ shot = NoFrame
    /\ ray = NoRay

SpecSnapshot == InitSnapshot /\ [][TakeSnapshot]_vars

\* Snapshot after snapshot of a world whose camera and player move and are
\* removed.
SnapshotsWorlds == {w \in SnapshotWorlds : w.ai_agents = <<>>}

InitSnapshots ==
    /\ InitServer
    /\ env = NoHost
    /\ windows = NoWindow
    /\ rcam = NoCamera
    /\ rhist = NoHistory
    /\ frame = NoFrame
    /\ rworld \in SnapshotsWorlds
    /\ all_blocks = NoSnapshot
    /\ shot = NoFrame
    /\ ray = NoRay

NextSnapshots ==
    \/ SnapshotWorld
    \/ \E collection \in ActorCollections, position \in HalfPositions :
            MoveActor(collection, position)
    \/ \E collection \in ActorCollections : RemoveActor(collection)

SpecSnapshots == InitSnapshots /\ [][NextSnapshots]_vars

\* The window of one camera under activate and deactivate calls, with its
\* window threads and the user closing the window.
InitWindow ==
    /\ InitServer
    /\ env = NoHost
    /\ rcam = NoCamera
    /\ rhist = NoHistory
    /\ frame = NoFrame
    /\ rworld = NoWorld
    /\ all_blocks = NoSnapshot
    /\ shot = NoFrame
    /\ ray = NoRay
    /\ windows = NewWindow

NextWindow ==
    \/ ActivateCall
    \/ ActivateReturn
    \/ DeactivateCall
    \/ DeactivateReturn
    \/ \E i \in 1..MaxThreads, outcome \in {"failed", "setup_failed", "created"} :
            ThreadCreate(i, outcome)
    \/ \E i \in 1..MaxThreads : OnClose(i)
    \/ \E i \in 1..MaxThreads : ThreadExit(i)

SpecWindow == InitWindow /\ [][NextWindow]_vars

\* ------------------------------------------------------------------ claims
\* The camera object of streaming task j is an entry of world.cameras.
InWorld(i) == \E k \in DOMAIN world_cameras : world_cameras[k] = i

\* C1: a camera's streaming loop stops only when its camera has been removed
\* from the World Store: while the camera is an entry of world.cameras, its
\* loop has not reached Stopped.
C1_StopsOnlyWhenRemoved ==
    \A j \in 1..Len(loops) : InWorld(loops[j].cam) => loops[j].pc # "stopped"

\* C2: renderer downgrade is permanent: a render_view call invokes no variant
\* that raised in an earlier render_view call of the same camera.
C2_DowngradeIsPermanent == rhist.invoked \cap rhist.raised_before = {}

\* Streaming task j handles the failure of its send to connection a in this step.
SendFails(j, a) ==
    /\ j \in 1..Len(loops)
    /\ loops[j].pc = "send"
    /\ loops[j].cur = a
    /\ ~open[a]
    /\ loops'[j] # loops[j]

\* C3: subscriber isolation: when the send to subscriber A fails in a tick, the
\* fan-out goes on with the subscribers of the tick's snapshot not sent to yet:
\* each of them is still sent the tick's frame.
C3_SubscriberIsolation ==
    [][\A j \in 1..Len(loops), a \in Conns :
          (SendFails(j, a) /\ loops[j].todo # {})
              => (loops'[j].pc = "send" /\ loops'[j].cur \in loops[j].todo)]_vars

\* C4: a send failure removes exactly the failed subscriber from the camera's
\* subscriber set, the other members and sets staying as they are, and does
\* not abort the streaming loop.
C4_FailureRemovesOnlyThatSubscriber ==
    [][\A j \in 1..Len(loops), a \in Conns :
          SendFails(j, a)
              => /\ ~loops'[j].exc
                 /\ DOMAIN camera_subscribers' = DOMAIN camera_subscribers
                 /\ \A k \in DOMAIN camera_subscribers :
                       camera_subscribers'[k] =
                          IF k = loops[j].msg_id THEN camera_subscribers[k] \ {a}
                          ELSE camera_subscribers[k]]_vars

\* C5: a camera's id is stable: every key k of world.cameras is the id of the
\* camera stored under it.
C5_IdIsKey == \A k \in DOMAIN world_cameras : cams[world_cameras[k]].id = k

\* C6: camera ids are unique: no two cameras of the world carry the same id.
C6_IdsUnique ==
    \A k1, k2 \in DOMAIN world_cameras :
        k1 # k2 => cams[world_cameras[k1]].id # cams[world_cameras[k2]].id

\* The first variant, in priority order, whose module imports and whose
\* constructor succeeds on host e.
FirstAvailableRenderer(e) ==
    IF e.import_ultra /\ e.ctor_ultra THEN "Ultra-Fast Renderer"
    ELSE IF e.import_fast /\ e.ctor_fast THEN "Fast Optimized Renderer"
    ELSE IF e.import_pyglet /\ e.ctor_pyglet THEN "Pyglet Renderer"
    ELSE "Original Ray Tracing"

\* C7: at camera creation the active renderer is the first variant, in priority
\* order, whose module imports and whose constructor succeeds.
C7_FastestAvailableRenderer ==
    rcam.created => get_active_renderer_type(rcam) = FirstAvailableRenderer(env)

\* C8: the format tag of every camera_frame matches its payload: "jpeg" for
\* JPEG bytes, "raw" for the raw frame data.
C8_FormatTagMatchesPayload ==
    frame.type = "camera_frame" => frame.format = frame.payload

\* C9: a control_camera request with action "move" on an existing camera adds
\* the delta to the camera's position, component by component, and is answered
\* with camera_updated.
C9_MoveAddsDelta ==
    [][\A c \in Conns, id \in DOMAIN world_cameras, d \in Deltas :
          ControlCamera(c, id, MoveRequest(d))
              => LET i == world_cameras[id]
                     v == cams[i].position.v
                 IN /\ cams'[i].position.v = <<v[1] + d[1], v[2] + d[2], v[3] + d[3]>>
                    /\ wire'.to = c
                    /\ wire'.msg.type = "camera_updated"]_vars

\* C10: the first two messages handed to a new connection are world_state and
\* then the player_joined notice of its own player.
C10_FixedPreamble ==
    \A c \in Conns :
        wire.to = c =>
            /\ nsent[c] = 1 => wire.msg.type = "world_state"
            /\ nsent[c] = PreambleLen => wire.msg = Msg("player_joined", PlayerKey(c), FALSE, 0)

\* handle_client has registered connection c.
Registered(c) == task[c].pc # "init"

\* The disconnect cleanup of connection c is complete: c is in no registry, its
\* player is gone, and the player_left broadcast has been made.
Cleaned(c) ==
    /\ c \notin clients
    /\ c \notin DOMAIN player_positions
    /\ PlayerKey(c) \notin DOMAIN world_players
    /\ \A k \in DOMAIN camera_subscribers : c \notin camera_subscribers[k]
    /\ task[c].pc = "done"

\* C11: disconnect cleanup always happens: every registered connection whose
\* transport has failed or closed, at any point after its registration, is
\* eventually out of clients and of every subscriber set, its player out of
\* world.players and player_positions, and player_left has been broadcast.
C11_CleanupAlwaysHappens ==
    \A c \in Conns : (Registered(c) /\ ~open[c]) ~> Cleaned(c)

\* The ids create_camera can give a camera.
CameraKeys == {CamId(t) : t \in 1..MaxClock}

\* Connection c is handed a camera_frame of camera k.
FrameDelivered(c, k) ==
    wire.to = c /\ wire.msg.type = "camera_frame" /\ wire.msg.id = k

\* A streaming task has made its MaxFrames frames.
FramesExhausted == \E j \in 1..Len(loops) : loops[j].pc = "bound"

\* C12: end-to-end liveness: once a client has been sent `subscribed` for a
\* camera, it is eventually sent a camera_frame of that camera, unless the
\* camera leaves the world or the connection closes first (fair scheduling;
\* the streaming tasks make at most MaxFrames frames).
C12_SubscriberGetsFrame ==
    \A c \in Conns, k \in CameraKeys :
        (wire.to = c /\ wire.msg = Msg("subscribed", k, FALSE, 0))
            ~> (\/ FrameDelivered(c, k)
                \/ k \notin DOMAIN world_cameras
                \/ ~open[c]
                \/ FramesExhausted)

\* Streaming task j hands a camera_frame to the transport of connection c in
\* this step.
FrameSent(j, c) ==
    /\ j \in 1..Len(loops)
    /\ loops'[j] # loops[j]
    /\ loops'[j].pc = "send"
    /\ loops'[j].cur = c
    /\ open[c]

\* C13: within one camera's stream the frames sent to a subscriber are in
\* generation order: each camera_frame handed to a connection carries a frame
\* counter strictly greater than that of the camera's previous frame handed to
\* the same connection, so no tick's frame is sent to it twice.
C13_FramesInGenerationOrder ==
    [][\A j \in 1..Len(loops), c \in Conns :
          FrameSent(j, c)
              => /\ wire'.msg.n = loops'[j].frame_count
                 /\ wire'.msg.n > delivered[c][loops[j].cam][2]]_vars

\* A subscriber has been handed two successive frames of one camera.
C13_Witness ==
    \E c \in Conns, i \in 1..Len(cams) :
        delivered[c][i][1] > 0 /\ delivered[c][i][2] > delivered[c][i][1]

MoveCubeInProgress(c) ==
    task[c].pc = "bcast" /\ task[c].cont = "reply" /\ task[c].msg.type = "cube_moved"

\* C15: request/response pairing for cube commands: the message handed to a
\* client next after its successful move_cube request is the direct reply
\* carrying success: true, so any message handed to the client while its
\* request is being handled is that reply.
C15_ReplyIsNextMessage ==
    \A c \in Conns : (MoveCubeInProgress(c) /\ wire.to = c) => wire.msg.success

\* The id names no camera of the world; it names no cube of the world.
NoSuchCamera(id) == id # NoId /\ id \notin DOMAIN world_cameras
NoSuchCube(id) == id # NoId /\ ~move_cube_found(id)

\* The request is answered with an error to the requester, no broadcast is
\* started, and the world, the subscriber sets and the streaming tasks stay
\* as they are.
ErrorAndNoChange(c) ==
    /\ wire'.to = c
    /\ wire'.msg.type = "error"
    /\ UNCHANGED <<worldVars, camera_subscribers, loops, task, clients, player_positions>>

C17_ProtocolErrorKeepsConnection ==
    [][\A c \in Conns, m \in BadMessages :
          BadMessage(c, m)
              => /\ wire'.to = c
                 /\ wire'.msg.type = "error"
                 /\ open'[c]
                 /\ task'[c].pc = "recv"
                 /\ c \in clients'
                 /\ c \in DOMAIN player_positions'
                 /\ PlayerKey(c) \in DOMAIN world_players'
                 /\ camera_subscribers' = camera_subscribers]_vars

\* A subscribed connection has been answered an error for a message that is
\* not JSON.
C17_Witness ==
    \E c \in Conns, k \in DOMAIN camera_subscribers :
        /\ wire = [to |-> c, msg |-> ErrorMsg("JSONDecodeError")]
        /\ c \in camera_subscribers[k]
        /\ CanRecv(c)

\* old_pitch + delta clamped to [-90, 90]
ClampedPitch(p) == IF p > 90 THEN 90 ELSE IF p < -90 THEN -90 ELSE p

\* Camera object i is rotated by (yaw, pitch) in this step.
Rotated(i, yaw, pitch) ==
    \E c \in Conns, id \in DOMAIN world_cameras :
        world_cameras[id] = i /\ ControlCamera(c, id, RotateRequest(yaw, pitch))

\* C18: after any sequence of rotate operations a camera's stored pitch lies
\* in [-90, 90]: a new camera has pitch 0, each rotate stores old_pitch + delta
\* clamped (not wrapped) and adds the yaw delta to the yaw unclamped, and
\* nothing else changes the rotation.
C18_PitchClampedYawSummed ==
    [][\A i \in 1..Len(cams') :
          /\ cams'[i].rotation[2] >= -90
          /\ cams'[i].rotation[2] <= 90
          /\ i <= Len(cams) =>
                \/ cams'[i].rotation = cams[i].rotation
                \/ \E yaw \in YawDeltas, pitch \in PitchDeltas :
                      /\ Rotated(i, yaw, pitch)
                      /\ cams'[i].rotation[1] = cams[i].rotation[1] + yaw
                      /\ cams'[i].rotation[2] = ClampedPitch(cams[i].rotation[2] + pitch)]_vars

\* A camera whose pitch was clamped at -90 and whose yaw has passed a full
\* turn.
C18_Witness ==
    \E i \in 1..Len(cams) : cams[i].rotation = <<MaxYaw, -90>>

\* C19: every camera created through a create_camera request has a resolution
\* of width in [160, 1920] and height in [120, 1080], whatever resolution was
\* requested.
C19_ResolutionWithinLimits ==
    \A i \in 1..Len(cams) :
        /\ cams[i].resolution[1] >= 160 /\ cams[i].resolution[1] <= 1920
        /\ cams[i].resolution[2] >= 120 /\ cams[i].resolution[2] <= 1080

\* Cameras exist whose requested resolution was too large in width and too
\* small in height, and the other way round.
C19_Witness ==
    \E i, j \in 1..Len(cams) :
        cams[i].resolution = <<1920, 120>> /\ cams[j].resolution = <<160, 1080>>

\* The cubes of the world's collections.
Actors(world) ==
    {world.cameras[i] : i \in 1..Len(world.cameras)}
        \cup {world.ai_agents[i] : i \in 1..Len(world.ai_agents)}
        \cup {world.players[i] : i \in 1..Len(world.players)}
        \cup {world.special_cubes[i] : i \in 1..Len(world.special_cubes)}

\* C20: snapshot occupancy precedence: every integer cell that holds a terrain
\* block and is the floored position of an actor is mapped by get_all_blocks()
\* to an actor at that cell, not to the terrain block.
C20_ActorsOverTerrain ==
    all_blocks.taken =>
        \A cell \in DOMAIN rworld.blocks :
            (\E a \in Actors(rworld) : floored_pos(a.position) = cell)
                => /\ all_blocks.blocks[cell] \in Actors(rworld)
                   /\ floored_pos(all_blocks.blocks[cell].position) = cell

\* A snapshot in which a player at a fractional position below zero stands in a
\* terrain cell and the cell is mapped to the player.
C20_Witness ==
    /\ all_blocks.taken
    /\ <<-1, 0, 0>> \in DOMAIN rworld.blocks
    /\ rworld.players = <<ActorCube("player", <<-1, 1, 0>>)>>
    /\ all_blocks.blocks[<<-1, 0, 0>>] = ActorCube("player", <<-1, 1, 0>>)

\* C21: frame size invariant: for every renderer variant and every resolution
\* (width, height), the raw frame render_view returns has width*height*3
\* bytes, also when a higher-priority variant failed in the call and a lower
\* one made the frame.
C21_FrameSize ==
    frame.type = "camera_frame" => frame.length = frame.width * frame.height * 3

\* A camera of a resolution other than the renderers' default whose Pyglet
\* renderer returned a frame in one tick and raised in a later one, in which
\* the ray tracing made the frame.
C21_Witness ==
    /\ frame.producer = "Original Ray Tracing"
    /\ "Pyglet Renderer" \in rhist.invoked
    /\ shot.producer = "Pyglet Renderer"
    /\ <<frame.width, frame.height>> = <<320, 240>>
    /\ shot.length = 230400
    /\ frame.length = 230400

C30_CacheCoherence ==
    (frame.type = "camera_frame" /\ frame.producer \in RendererNames)
        => /\ frame.scene.geometry.built = "full"
           /\ frame.scene.geometry.from = frame.hash

\* C23: with the ray-march renderer, a camera added to the world at (0, 5, 0)
\* and pitched to look down over a flat grass plane at y = 0 returns a frame
\* in which every pixel outside the LED and digit regions is the grass colour
\* (34,139,34).
C23_LookingDownSeesGrass ==
    (/\ ray.cast
     /\ rworld.blocks = PlaneWorld.blocks
     /\ rworld.cameras # <<>>
     /\ ray.position = <<0, 10, 0>>
     /\ ray.rotation = <<0, 90>>
     /\ ~(ray.px >= ray.width - 10 /\ ray.py <= 8)
     /\ ~(ray.px >= ray.width - 15 /\ ray.py >= ray.height - 10))
        => ray.colour = <<34, 139, 34>>

\* C24 as the spec states it: with the ray-march renderer, an empty world and
\* pitch = 0, yaw = 0, every pixel outside the overlay regions has the
\* above-horizon sky colour (135,206,235), for every pixel row of the frame.
C24_AllRowsAboveHorizon ==
    (/\ ray.cast
     /\ get_all_blocks(rworld) = EmptyDict
     /\ ray.rotation = <<0, 0>>
     /\ ~(ray.px >= ray.width - 10 /\ ray.py <= 8)
     /\ ~(ray.px >= ray.width - 15 /\ ray.py >= ray.height - 10))
        => ray.colour = <<135, 206, 235>>

\* C24, amended: with the ray-march renderer, an empty world and pitch = 0,
\* yaw = 0, a pixel outside the overlay regions has the above-horizon sky
\* colour (135,206,235) in the rows above the middle of the frame
\* (2 py < height) and the below-horizon colour (100,149,237) in the others.
C24_TwoToneSky ==
    (/\ ray.cast
     /\ get_all_blocks(rworld) = EmptyDict
     /\ ray.rotation = <<0, 0>>
     /\ ~(ray.px >= ray.width - 10 /\ ray.py <= 8)
     /\ ~(ray.px >= ray.width - 15 /\ ray.py >= ray.height - 10))
        => ray.colour = IF 2 * ray.py < ray.height THEN <<135, 206, 235>>
                        ELSE <<100, 149, 237>>
C24_Witness ==
    /\ ray.cast
    /\ get_all_blocks(rworld) = EmptyDict
    /\ ray.rotation = <<0, 0>>
    /\ ray.px = 0
    /\ ray.py = 30
    /\ ray.height = 60
    /\ ray.colour = <<100, 149, 237>>

\* C25: a get_player_positions request is answered with a player_positions
\* message that lists the position of every currently connected player and
\* their count.
C25_PlayerPositionsAnswered ==
    [][\A c \in Conns :
            (GetPlayerPositions(c) /\ open[c])
                => /\ wire'.to = c
                   /\ wire'.msg.type = "player_positions"
                   /\ wire'.msg.n = Cardinality(DOMAIN player_positions)]_vars

\* C26: every camera_frame message carries a renderer field that names the
\* renderer variant which actually produced that frame's pixels.
C26_RendererFieldNamesProducer ==
    frame.type = "camera_frame" => frame.renderer = frame.producer

\* The handler of connection c has started the broadcast of m to every
\* registered connection, c among them: the first send is made (it hands m
\* over if that connection's transport is open), the others are to come.
BroadcastStarted(c, m) ==
    /\ task'[c].pc = "bcast"
    /\ task'[c].msg = m
    /\ task'[c].todo \cup {task'[c].cur} = clients
    /\ c \in clients
    /\ open[task'[c].cur] => wire' = [to |-> task'[c].cur, msg |-> m]

\* C27 as the spec states it: every place_block request results in a
\* block_placed broadcast to all connections and every destroy_block request
\* in a block_destroyed broadcast to all connections, the sender included,
\* with the terrain map updated accordingly.
C27_EveryRequestBroadcast ==
    [][\A c \in Conns, position \in BlockPositions :
            /\ PlaceBlock(c, position)
                   => /\ position \in terrain'
                      /\ BroadcastStarted(c, BlockMsg("block_placed", position))
            /\ DestroyBlock(c, position)
                   => /\ position \notin terrain'
                      /\ BroadcastStarted(c, BlockMsg("block_destroyed", position))]_vars

\* C27, amended: a place_block request for a free cell puts the block into
\* the terrain map and results in a block_placed broadcast to all
\* connections, a destroy_block request for an occupied cell takes the block
\* out and results in a block_destroyed broadcast to all connections, the
\* sender included; a place_block request for an occupied cell and a
\* destroy_block request for a free cell change nothing and send nothing.
C27_EffectiveRequestBroadcast ==
    [][\A c \in Conns, position \in BlockPositions :
            /\ PlaceBlock(c, position)
                   => IF position \notin terrain
                      THEN /\ terrain' = terrain \cup {position}
                           /\ BroadcastStarted(c, BlockMsg("block_placed", position))
                      ELSE /\ wire' = NoWire
                           /\ UNCHANGED <<terrain, task, clients>>
            /\ DestroyBlock(c, position)
                   => IF position \in terrain
                      THEN /\ terrain' = terrain \ {position}
                           /\ BroadcastStarted(c, BlockMsg("block_destroyed", position))
                      ELSE /\ wire' = NoWire
                           /\ UNCHANGED <<terrain, task, clients>>]_vars
C27_Witness ==
    \E c \in Conns, position \in BlockPositions :
        /\ task[c].pc = "bcast"
        /\ task[c].msg = BlockMsg("block_destroyed", position)
        /\ terrain = BlockPositions \ {position}
        /\ Cardinality(clients) = 2
        /\ wire.to = c
        /\ wire.msg = task[c].msg

\* C28: subscriber sets have no duplicate membership: a subscribe_camera
\* request of a connection that is a subscriber of the camera already leaves
\* the subscriber sets and the streaming tasks as they are, and a tick of a
\* camera's streaming task hands its frame to a connection at most once: not
\* to a connection it has handed the frame of this tick to, and with that
\* connection off the tick's list.
C28_OneMembershipOneFrame ==
    [][/\ \A c \in Conns, id \in DOMAIN camera_subscribers :
              (SubscribeCamera(c, id) /\ c \in camera_subscribers[id])
                  => UNCHANGED <<camera_subscribers, loops>>
       /\ \A j \in 1..Len(loops), c \in Conns :
              FrameSent(j, c)
                  => /\ c \notin loops'[j].todo
                     /\ delivered[c][loops[j].cam][2] # loops'[j].frame_count]_vars

\* A connection that has been handed a frame of a camera is answered
\* `subscribed` for that camera again and is its only subscriber.
C28_Witness ==
    \E c \in Conns, i \in 1..Len(cams) :
        /\ delivered[c][i][2] > 0
        /\ wire = [to |-> c, msg |-> Msg("subscribed", cams[i].id, FALSE, 0)]
        /\ cams[i].id \in DOMAIN camera_subscribers
        /\ camera_subscribers[cams[i].id] = {c}

\* C29: the world is changed only by the message handlers: a step of a
\* camera's streaming task leaves the terrain, the cameras with their
\* positions and rotations, the players and the player positions unchanged;
\* it changes only its own record (the frame counter among it) and the
\* subscriber set under its camera's id.
C29_TickLeavesWorld ==
    [][\A j \in 1..Len(loops) :
          (LoopStart(j) \/ LoopWake(j) \/ LoopSendReturn(j))
              => /\ UNCHANGED <<worldVars, terrain, player_positions, rworld>>
                 /\ DOMAIN camera_subscribers' = DOMAIN camera_subscribers
                 /\ \A id \in DOMAIN camera_subscribers :
                        id # cams[loops[j].cam].id
                            => camera_subscribers'[id] = camera_subscribers[id]
                 /\ Len(loops') = Len(loops)
                 /\ \A k \in 1..Len(loops) : k # j => loops'[k] = loops[k]]_vars

\* A streaming task in its second tick or later has discarded a subscriber
\* whose transport is closed; that connection's player is in the world still.
C29_Witness ==
    \E j \in 1..Len(loops), c \in Conns :
        /\ loops[j].frame_count >= 2
        /\ ~open[c]
        /\ task[c].pc = "recv"
        /\ cams[loops[j].cam].id \in acked[c]
        /\ cams[loops[j].cam].id \in DOMAIN camera_subscribers
        /\ c \notin camera_subscribers[cams[loops[j].cam].id]
        /\ PlayerKey(c) \in DOMAIN world_players

\* C31: overlays depend only on frame_index and are written after the scene:
\* in every rendered frame the LED block is in its bright state iff
\* (frame_index // 3) % 2 = 0, the digit drawn is frame_index mod 10, and the
\* overlay pixels are the same whatever the scene underneath.
C31_OverlayByFrameIndex ==
    ray.cast =>
        LET bright == (ray.frame_count \div 3) % 2 = 0
            led == ray.px >= ray.width - 10 /\ ray.py <= 8
            core == ray.px >= ray.width - 8 /\ ray.py <= 6
            rel_x == ray.px - (ray.width - 15)
            rel_y == ray.py - (ray.height - 10)
            dot == /\ rel_x \in 0..4
                   /\ rel_y \in 0..7
                   /\ digit_patterns[(ray.frame_count % 10) + 1][rel_y + 1][rel_x + 1] = 1
        IN /\ dot => ray.colour = <<255, 255, 0>>
           /\ (led /\ core) => ray.colour = IF bright THEN <<0, 255, 0>> ELSE <<0, 120, 0>>
           /\ (led /\ ~core) => ray.colour = IF bright THEN <<0, 200, 0>> ELSE <<0, 80, 0>>
           /\ (~led /\ ~dot) => ray.colour = ray.march

\* The ray tracing has painted a dark LED pixel over a grass pixel, the frame
\* counter being 3.
C31_Witness ==
    /\ ray.cast
    /\ ray.producer = "Original Ray Tracing"
    /\ ray.frame_count = 3
    /\ ray.px = 79
    /\ ray.py = 0
    /\ ray.march = <<34, 139, 34>>
    /\ ray.colour = <<0, 120, 0>>

\* C32: subscribe_camera starts the stream when it is not active: after a
\* successful subscribe_camera on a camera present in the world, a streaming
\* loop for that camera is running, also when its earlier loop had stopped.
C32_SubscribeStartsStream ==
    [][\A c \in Conns, camera_id \in DOMAIN world_cameras :
          SubscribeCamera(c, camera_id) =>
              \E j \in 1..Len(loops') : /\ loops'[j].cam = world_cameras[camera_id]
                                        /\ loops'[j].pc # "stopped"]_vars

\* The camera of index i is a value of world.cameras.
CameraInWorld(i) == \E k \in DOMAIN world_cameras : world_cameras[k] = i

\* A step of the streaming task j that renders a frame (the sleep is over) or
\* hands the frame to a subscriber's transport.
FrameStep(j) ==
    \/ LoopWake(j)
    \/ LoopSendReturn(j) /\ loops'[j].pc = "send"

\* C33 as stated: no frame after removal: once a camera has been removed from
\* the World Store, no camera_frame for that camera is rendered or sent to
\* any subscriber afterwards, also when the removal happens while the loop is
\* suspended in its per-tick sleep or in a send.
C33_NoFrameAfterRemoval ==
    [][\A j \in 1..Len(loops) : FrameStep(j) => CameraInWorld(loops[j].cam)]_vars

\* C33: no tick begins after removal: a streaming task begins a tick only
\* when its camera's id is a key of world.cameras at the tick's while test,
\* and a frame it renders or sends is the frame of the tick in progress.  A
\* removal made while the task is suspended in its sleep or in a send lets
\* that tick's frame still be rendered and sent; the next while test stops
\* the task.
C33_NoTickAfterRemoval ==
    [][\A j \in 1..Len(loops) :
          /\ loops'[j].frame_count > loops[j].frame_count
                => cams[loops[j].cam].id \in DOMAIN world_cameras
          /\ (loops[j].pc # "stopped" /\ loops'[j].pc = "stopped" /\ ~loops'[j].exc)
                => cams[loops[j].cam].id \notin DOMAIN world_cameras
          /\ FrameStep(j) => /\ loops[j].frame_count > 0
                             /\ loops'[j].frame_count >= loops[j].frame_count
                             /\ (loops'[j].pc = "send" /\ open[loops'[j].cur])
                                    => /\ wire'.msg.type = "camera_frame"
                                       /\ wire'.msg.n = loops[j].frame_count]_vars

\* The camera has been removed and the frame of the tick in progress is on
\* its way to a subscriber.
C33_Witness ==
    \E j \in 1..Len(loops) :
        /\ ~CameraInWorld(loops[j].cam)
        /\ loops[j].pc = "send"
        /\ wire.msg.type = "camera_frame"
        /\ wire.msg.n = loops[j].frame_count

\* The streaming task j has been created and has not ended.
LoopRunning(j) == loops[j].pc # "stopped"

\* C34: at most one streaming loop per camera: in every reachable state,
\* under any interleaving of create_camera and subscribe_camera requests from
\* any number of clients, at most one camera_stream_loop task is running for
\* a given camera of the world.
C34_OneLoopPerCamera ==
    \A k \in DOMAIN world_cameras :
        \A i, j \in 1..Len(loops) :
            (/\ loops[i].cam = world_cameras[k]
             /\ loops[j].cam = world_cameras[k]
             /\ LoopRunning(i)
             /\ LoopRunning(j)) => i = j

\* Two cameras are streaming, and two connections are subscribers of one of
\* them, which has one streaming task.
C34_Witness ==
    /\ Len(cams) = 2
    /\ \E k \in DOMAIN world_cameras :
          /\ k \in DOMAIN camera_subscribers
          /\ Cardinality(camera_subscribers[k]) = 2
          /\ Cardinality({j \in 1..Len(loops) :
                             loops[j].cam = world_cameras[k] /\ LoopRunning(j)}) = 1
          /\ \E j \in 1..Len(loops) : loops[j].cam = world_cameras[k] /\ loops[j].pc = "send"

\* C35: no subscriber set outlives its camera: in every reachable state each
\* key of camera_subscribers is the id of a camera currently in
\* world.cameras; after remove_cube removes a camera its subscriber set is
\* gone.
C35_SubscribersHaveCamera ==
    DOMAIN camera_subscribers \subseteq DOMAIN world_cameras

\* C36: player registry consistency: for every connection with an entry in
\* player_positions, world.players holds that connection's player and the
\* player's position equals the player_positions entry, after any sequence
\* of player_position_update, move_cube and remove_cube requests.
C36_RegistryMatchesWorld ==
    \A c \in DOMAIN player_positions :
        /\ PlayerKey(c) \in DOMAIN world_players
        /\ world_players[PlayerKey(c)].position.v = player_positions[c]

\* The cells the actors of a world are in.
ActorCells(world) ==
    {floored_pos(world[collection][1].position) :
        collection \in {k \in ActorCollections : world[k] # <<>>}}

\* C37: taking a snapshot does not change the terrain: get_all_blocks()
\* leaves world.blocks unchanged, so a terrain block hidden by an actor in one
\* snapshot is reported again in the next snapshot once the actor has moved
\* to another cell or was removed.
C37_SnapshotLeavesTerrain ==
    [][SnapshotWorld =>
          /\ rworld'.blocks = rworld.blocks
          /\ \A cell \in DOMAIN rworld.blocks :
                /\ rworld.blocks[cell] = TerrainCube(cell)
                /\ cell \notin ActorCells(rworld)
                      => all_blocks'.blocks[cell] = TerrainCube(cell)]_vars

\* The last snapshot reported an actor in a cell of the terrain, the actor
\* has left the cell since, and the terrain block is still in world.blocks.
C37_Witness ==
    /\ all_blocks.taken
    /\ \E cell \in DOMAIN rworld.blocks :
          /\ all_blocks.blocks[cell].block_type # "grass"
          /\ cell \notin ActorCells(rworld)
          /\ rworld.blocks[cell] = TerrainCube(cell)

\* C38: after deactivate() of a camera's window returns, the window is
\* inactive (is_active is false and is_window_active() is falsy), for every
\* preceding sequence of activate/deactivate calls and window events,
\* including an activation whose window thread failed to create the window
\* and a window closed by its on_close event.
C38_InactiveAfterDeactivate ==
    windows.returned = "deactivate" => ~windows.is_active /\ ~is_window_active(windows)
====
